---- MODULE Spec2Model ----
(***************************************************************************)
(* Model of the apple-on-device-ai library: the push-to-pull stream        *)
(* bridges of AppleAISDK (streamResponse, streamChatCompletion), the       *)
(* Swift streaming producer, the provider's doStream and the JSON-Schema   *)
(* compiler buildSchemasFromJson / convertJSONSchemaToDynamic.             *)
(***************************************************************************)
EXTENDS Integers, Sequences, FiniteSets, TLC

(***************************************************************************)
(* Bounds of the model.                                                    *)
(***************************************************************************)
MaxCalls == 3      \* producer invocations of handleChunk per stream
MaxPulls == 4      \* consumer calls of next() per stream
MaxCums == 3       \* cumulative texts the runtime reports per stream
MaxText == 3       \* length of the longest cumulative text

(***************************************************************************)
(* JavaScript null / undefined.                                            *)
(***************************************************************************)
NULL == "<null>"

\* Payloads the native layer hands to handleChunk(err, chunk).
Chunks == {"a", "b"}
Payloads ==
  {[err |-> "E", chunk |-> NULL]}
    \cup {[err |-> NULL, chunk |-> c] : c \in Chunks \cup {NULL, ""}}

VARIABLES
  mode,            \* which bridge this stream is: "response" or "chat"
  queue,           \* queue: buffered, not yet consumed items
  done,            \* let done
  pendingResolve,  \* promise the pending resolve callback belongs to (0 = null)
  pendingReject,   \* promise the pending reject callback belongs to (0 = null)
  error,           \* let error
  isFirstChunk,    \* streamChatCompletion only
  promises,        \* every promise next() has returned, in call order
  calls,           \* history: payloads handleChunk was invoked with, in order
  cancelAt,        \* history: Len(promises) at the first return()/throw(), -1 if none
  overlap,         \* history: next() was called while an earlier next() was pending
  errAt            \* history: Len(promises) when the first terminal payload was an
                   \*   error that found no pending pull, -1 otherwise

bridgeVars ==
  <<mode, queue, done, pendingResolve, pendingReject, error, isFirstChunk,
    promises, calls, cancelAt, overlap, errAt>>

----------------------------------------------------------------------------
(***************************************************************************)
(* Promises and iterator results.                                          *)
(***************************************************************************)
Pending == [st |-> "pending", value |-> NULL, done |-> FALSE]
Resolved(v, d) == [st |-> "resolved", value |-> v, done |-> d]
Rejected(e) == [st |-> "rejected", value |-> e, done |-> FALSE]

\* Calling a promise's resolve/reject callback: a null callback is not called
\* (the code tests it first), and a settled promise ignores later calls.
Settle(ps, i, r) ==
  IF i = 0 THEN ps
  ELSE IF ps[i].st # "pending" THEN ps
  ELSE [ps EXCEPT ![i] = r]

IsEnd(chunk) == chunk = NULL \/ chunk = ""

\* queue.push(x)
PushFront(q, x) == <<x>> \o q
Push(q, x) == Append(q, x)

\* streamResponse, end-of-stream: if (pendingResolve) pendingResolve({done: true})
ResolveEndDropped(ps, i) == ps
ResolveEnd(ps, i) == Settle(ps, i, Resolved(NULL, TRUE))

\* The chunk objects streamChatCompletion builds (id, created, model are the
\* same in every chunk of a stream and are left out).
FinalChunkWithoutReason ==
  [content |-> NULL, role |-> FALSE, finish_reason |-> NULL]
FinalChunk == [content |-> NULL, role |-> FALSE, finish_reason |-> "stop"]
ContentChunk(chunk, first) ==
  [content |-> chunk, role |-> first, finish_reason |-> NULL]

----------------------------------------------------------------------------
(***************************************************************************)
(* The bridge after construction.                                          *)
(***************************************************************************)
BridgeInit(m) ==
  /\ mode = m
  /\ queue = <<>>
  /\ done = FALSE
  /\ pendingResolve = 0
  /\ pendingReject = 0
  /\ error = NULL
  /\ isFirstChunk = TRUE
  /\ promises = <<>>
  /\ calls = <<>>
  /\ cancelAt = -1
  /\ overlap = FALSE
  /\ errAt = -1

\* History bookkeeping of one handleChunk invocation.
NoteCall(p) ==
  /\ calls' = Append(calls, p)
  /\ errAt' = IF /\ p.err # NULL
                 /\ \A i \in 1..Len(calls) :
                      calls[i].err = NULL /\ ~IsEnd(calls[i].chunk)
                 /\ pendingReject = 0
              THEN Len(promises) ELSE errAt
  /\ UNCHANGED <<cancelAt, overlap>>

\* streamResponse: const handleChunk = (err, chunk) => { ... }
handleChunk(p) ==
  /\ mode = "response"
  /\ NoteCall(p)
  /\ IF p.err # NULL
     THEN /\ error' = p.err
          /\ done' = TRUE
          /\ promises' = Settle(promises, pendingReject, Rejected(p.err))
          /\ pendingResolve' = IF pendingReject # 0 THEN 0 ELSE pendingResolve
          /\ pendingReject' = 0
          /\ UNCHANGED queue
     ELSE IF IsEnd(p.chunk)
     THEN /\ done' = TRUE
          /\ promises' = ResolveEnd(promises, pendingResolve)
          /\ pendingResolve' = 0
          /\ UNCHANGED <<error, pendingReject, queue>>
     ELSE IF pendingResolve # 0
     THEN /\ promises' = Settle(promises, pendingResolve, Resolved(p.chunk, FALSE))
          /\ pendingResolve' = 0
          /\ pendingReject' = 0
          /\ UNCHANGED <<error, done, queue>>
     ELSE /\ queue' = Push(queue, p.chunk)
          /\ UNCHANGED <<error, done, promises, pendingResolve, pendingReject>>
  /\ UNCHANGED <<mode, isFirstChunk>>

\* streamChatCompletion: const handleChunk = (err, chunk) => { ... }
chatHandleChunk(p) ==
  /\ mode = "chat"
  /\ NoteCall(p)
  /\ IF p.err # NULL
     THEN /\ error' = p.err
          /\ done' = TRUE
          /\ promises' = Settle(promises, pendingReject, Rejected(p.err))
          /\ pendingResolve' = IF pendingReject # 0 THEN 0 ELSE pendingResolve
          /\ pendingReject' = 0
          /\ UNCHANGED <<queue, isFirstChunk>>
     ELSE LET chatChunk == IF IsEnd(p.chunk) THEN FinalChunk
                           ELSE ContentChunk(p.chunk, isFirstChunk)
          IN /\ done' = (IF IsEnd(p.chunk) THEN TRUE ELSE done)
             /\ isFirstChunk' = (IF IsEnd(p.chunk) THEN isFirstChunk ELSE FALSE)
             /\ IF pendingResolve # 0
                THEN /\ promises' =
                          Settle(promises, pendingResolve, Resolved(chatChunk, FALSE))
                     /\ pendingResolve' = 0
                     /\ pendingReject' = 0
                     /\ UNCHANGED queue
                ELSE /\ queue' = Push(queue, chatChunk)
                     /\ UNCHANGED <<promises, pendingResolve, pendingReject>>
             /\ UNCHANGED error
  /\ UNCHANGED mode

\* next() of either iterator (the two bodies are the same).
NextResultIgnoringQueue ==
  IF done THEN Resolved(NULL, TRUE)
  ELSE IF error # NULL THEN Rejected(error)
  ELSE Pending
NextResult ==
  IF Len(queue) > 0 THEN Resolved(Head(queue), FALSE)
  ELSE IF done THEN Resolved(NULL, TRUE)
  ELSE IF error # NULL THEN Rejected(error)
  ELSE Pending

next ==
  /\ promises' = Append(promises, NextResult)
  /\ queue' = IF Len(queue) > 0 THEN Tail(queue) ELSE queue
  /\ pendingResolve' =
       IF NextResult.st = "pending" THEN Len(promises) + 1 ELSE pendingResolve
  /\ pendingReject' =
       IF NextResult.st = "pending" THEN Len(promises) + 1 ELSE pendingReject
  /\ overlap' = (overlap \/ \E i \in 1..Len(promises) : promises[i].st = "pending")
  /\ UNCHANGED <<mode, done, error, isFirstChunk, calls, cancelAt, errAt>>

\* return() and throw(err) of either iterator: both only set done.
return ==
  /\ done' = TRUE
  /\ cancelAt' = IF cancelAt = -1 THEN Len(promises) ELSE cancelAt
  /\ UNCHANGED <<mode, queue, pendingResolve, pendingReject, error, isFirstChunk,
                 promises, calls, overlap, errAt>>

----------------------------------------------------------------------------
(***************************************************************************)
(* The Swift producer appleAIGenerateResponseStream and the native layer   *)
(* that turns each onChunk payload into one handleChunk(err, chunk) call.  *)
(***************************************************************************)
\* Control-B (U+0002), written as a printable character.
ERROR_SENTINEL == "~"

Alphabet == {"a", "b", ERROR_SENTINEL}

RECURSIVE TextsUpTo(_)
TextsUpTo(n) ==
  IF n = 0 THEN {""}
  ELSE TextsUpTo(n - 1)
         \cup {t \o c : t \in {u \in TextsUpTo(n - 1) : Len(u) = n - 1}, c \in Alphabet}

\* Cumulative texts the runtime's response stream can report.
Texts == TextsUpTo(MaxText)

IsPrefix(t, c) == Len(t) <= Len(c) /\ SubSeq(c, 1, Len(t)) = t

\* let delta = String(cumulative.dropFirst(prev.count))
DeltaCumulative(cumulative, pv) == cumulative
Delta(cumulative, pv) == SubSeq(cumulative, Len(pv) + 1, Len(cumulative))

\* delta.first (nil, written "", for the empty string)
First(t) == IF t = "" THEN "" ELSE SubSeq(t, 1, 1)

\* guard !delta.isEmpty, delta.first != ERROR_SENTINEL else { continue }
EmitsAll(delta) == First(delta) # ERROR_SENTINEL
Emits(delta) == delta # "" /\ First(delta) # ERROR_SENTINEL

\* emitError: let full = String(ERROR_SENTINEL) + message
ErrorPayload(message) == ERROR_SENTINEL \o message

\* The native layer's decoding of an onChunk payload into the arguments of
\* handleChunk: nil or empty is the end, a leading sentinel marks an error
\* whose message is the rest, anything else is a chunk.
Decode(payload) ==
  IF payload = NULL \/ payload = "" THEN [err |-> NULL, chunk |-> NULL]
  ELSE IF First(payload) = ERROR_SENTINEL
       THEN [err |-> SubSeq(payload, 2, Len(payload)), chunk |-> NULL]
       ELSE [err |-> NULL, chunk |-> payload]

VARIABLES
  pstate,   \* position of the Swift task: "start", "loop", "finished", "failed"
  prev,     \* var prev
  cums      \* history: the cumulative texts the runtime has reported

prodVars == <<pstate, prev, cums>>

ProdInit ==
  /\ pstate = "start"
  /\ prev = ""
  /\ cums = <<>>

\* onChunk(payload): one handler invocation on the stream's bridge.
onChunk(payload) ==
  IF mode = "chat" THEN chatHandleChunk(Decode(payload))
  ELSE handleChunk(Decode(payload))

\* guard case .available = model.availability else { emitError(...); return }
swiftUnavailable ==
  /\ pstate = "start"
  /\ pstate' = "failed"
  /\ onChunk(ErrorPayload("Model unavailable"))
  /\ UNCHANGED <<prev, cums>>

\* The availability guard passes and the session starts streaming.
swiftStart ==
  /\ pstate = "start"
  /\ pstate' = "loop"
  /\ UNCHANGED <<prev, cums, bridgeVars>>

\* One iteration of: for try await cumulative in session.streamResponse(...)
swiftYield(cumulative) ==
  /\ pstate = "loop"
  /\ Len(cums) < MaxCums
  /\ IsPrefix(prev, cumulative)
  /\ cums' = Append(cums, cumulative)
  /\ prev' = cumulative
  /\ IF Emits(Delta(cumulative, prev))
     THEN onChunk(Delta(cumulative, prev))
     ELSE UNCHANGED bridgeVars
  /\ UNCHANGED pstate

\* The loop ends: onChunk(nil)
swiftFinish ==
  /\ pstate = "loop"
  /\ pstate' = "finished"
  /\ onChunk(NULL)
  /\ UNCHANGED <<prev, cums>>

\* The stream throws: catch { emitError(error.localizedDescription, to: onChunk) }
swiftThrow ==
  /\ pstate = "loop"
  /\ pstate' = "failed"
  /\ onChunk(ErrorPayload("E"))
  /\ UNCHANGED <<prev, cums>>

----------------------------------------------------------------------------
(***************************************************************************)
(* JSON documents. An object keeps its members in document order; Swift    *)
(* reads it as an unordered [String: Any] dictionary.                      *)
(***************************************************************************)
JStr(str) == [t |-> "str", s |-> str]
JNum(num) == [t |-> "num", n |-> num]
JArr(vs) == [t |-> "arr", items |-> vs]
JObj(members) == [t |-> "obj", kv |-> members]
JBool(bool) == [t |-> "bool", b |-> bool]

HasKey(o, k) == \E i \in 1..Len(o.kv) : o.kv[i][1] = k
Get(o, k) == o.kv[CHOOSE i \in 1..Len(o.kv) : o.kv[i][1] = k][2]
KeysOf(o) == {o.kv[i][1] : i \in 1..Len(o.kv)}

\* dict[k] as? String, as? [String: Any], as? [String], as? [[String: Any]],
\* as? Int: the value, or NULL (nil) when the key is absent or the cast fails.
AsString(o, k) ==
  IF HasKey(o, k) /\ Get(o, k).t = "str" THEN Get(o, k).s ELSE NULL
AsDict(o, k) ==
  IF HasKey(o, k) /\ Get(o, k).t = "obj" THEN Get(o, k) ELSE NULL
IsArrayOf(o, k, ty) ==
  /\ HasKey(o, k) /\ Get(o, k).t = "arr"
  /\ \A i \in 1..Len(Get(o, k).items) : Get(o, k).items[i].t = ty
AsStringArray(o, k) ==
  IF IsArrayOf(o, k, "str")
  THEN [i \in 1..Len(Get(o, k).items) |-> Get(o, k).items[i].s]
  ELSE NULL
AsDictArray(o, k) ==
  IF IsArrayOf(o, k, "obj") THEN Get(o, k).items ELSE NULL
HasDict(o, k) == HasKey(o, k) /\ Get(o, k).t = "obj"
AsInt(o, k) ==
  IF HasKey(o, k) /\ Get(o, k).t = "num" THEN Get(o, k).n ELSE NULL

VARIABLES
  seed,     \* the order in which this process's dictionaries iterate their keys
  cDoc,     \* the schema document handed to buildSchemasFromJson
  cState,   \* "input" before the call, "compiled" after it
  cRoot,    \* the returned root schema
  cDeps,    \* the returned dependencies
  cRoot2,   \* the root schema returned by a second invocation on cDoc
  cDeps2    \* the dependencies returned by the second invocation

VARIABLES
  available,   \* model.availability is .available
  result,      \* the string appleAIGenerateResponseStructured returns
  responded    \* the number of session.respond calls made

structVars == <<available, result, responded>>

compVars == <<seed, cDoc, cState, cRoot, cDeps, cRoot2, cDeps2, structVars>>

\* for (key, value) in dictionary: Swift fixes no iteration order; the keys
\* come in the order the process's hashing gives them.
IterKeys(o) == SelectSeq(seed, LAMBDA k : k \in KeysOf(o))

\* UUID().uuidString: a fresh name, one per anonymous node of an invocation
\* (u names the invocation, path the node).
UUID(u, path) == u \o path

----------------------------------------------------------------------------
(***************************************************************************)
(* DynamicGenerationSchema values.                                         *)
(***************************************************************************)
TypeNode(ty) == [kind |-> "type", type |-> ty]
RefNode(ref) == [kind |-> "ref", name |-> ref]
EnumNode(nm, desc, choices) ==
  [kind |-> "enum", name |-> nm, description |-> desc, choices |-> choices]
UnionNode(nm, desc, choices) ==
  [kind |-> "union", name |-> nm, description |-> desc, choices |-> choices]
ArrayNode(item, mn, mx) ==
  [kind |-> "array", items |-> item, minimumElements |-> mn,
   maximumElements |-> mx]
ObjectNode(nm, desc, props) ==
  [kind |-> "object", name |-> nm, description |-> desc, properties |-> props]
Property(nm, desc, schema, opt) ==
  [name |-> nm, description |-> desc, schema |-> schema, isOptional |-> opt]

OrElse(x, dflt) == IF x = NULL THEN dflt ELSE x
InSeq(x, sq) == \E i \in 1..Len(sq) : sq[i] = x

\* A branch of anyOf that is a single-value string enum.
IsSingleEnum(choice) ==
  IF IsArrayOf(choice, "enum", "str")
  THEN Len(AsStringArray(choice, "enum")) = 1
  ELSE FALSE

\* The primitive cases and the default case of the switch on type.
ScalarTypeDefaultNumber(type) ==
  IF type = "string" THEN "String"
  ELSE IF type = "number" THEN "Double"
  ELSE IF type = "integer" THEN "Int"
  ELSE IF type = "boolean" THEN "Bool"
  ELSE "Double"
ScalarType(type) ==
  IF type = "string" THEN "String"
  ELSE IF type = "number" THEN "Double"
  ELSE IF type = "integer" THEN "Int"
  ELSE IF type = "boolean" THEN "Bool"
  ELSE "String"

\* let isOptional = !required.contains(propName)
IsOptionalInverted(propName, required) == InSeq(propName, required)
IsOptional(propName, required) == ~InSeq(propName, required)

RECURSIVE convertJSONSchemaToDynamic(_, _, _, _)
RECURSIVE ConvertAnyOf(_, _, _, _, _)
RECURSIVE ConvertProps(_, _, _, _, _)

\* The loop over anyOf: stringChoices (what = "string") or dynamicChoices
\* (what = "dynamic") of the branches from index i on.
ConvertAnyOfPrepending(anyOf, i, what, u, path) ==
  IF i > Len(anyOf) THEN <<>>
  ELSE LET rest == ConvertAnyOf(anyOf, i + 1, what, u, path)
       IN IF IsSingleEnum(anyOf[i])
          THEN (IF what = "string"
                THEN rest \o <<AsStringArray(anyOf[i], "enum")[1]>>
                ELSE rest)
          ELSE (IF what = "string" THEN rest
                ELSE rest \o
                     <<convertJSONSchemaToDynamic(
                         anyOf[i], NULL, u, path \o "/anyOf/" \o ToString(i))>>)
ConvertAnyOf(anyOf, i, what, u, path) ==
  IF i > Len(anyOf) THEN <<>>
  ELSE LET rest == ConvertAnyOf(anyOf, i + 1, what, u, path)
       IN IF IsSingleEnum(anyOf[i])
          THEN (IF what = "string"
                THEN <<AsStringArray(anyOf[i], "enum")[1]>> \o rest
                ELSE rest)
          ELSE (IF what = "string" THEN rest
                ELSE <<convertJSONSchemaToDynamic(
                         anyOf[i], NULL, u, path \o "/anyOf/" \o ToString(i))>>
                       \o rest)

\* The loop over properties, in the dictionary's iteration order.
ConvertProps(properties, ks, required, u, path) ==
  IF ks = <<>> THEN <<>>
  ELSE LET propName == Head(ks)
           sub == Get(properties, propName)
           rest == ConvertProps(properties, Tail(ks), required, u, path)
       IN IF sub.t # "obj" THEN rest
          ELSE <<Property(propName, AsString(sub, "description"),
                          convertJSONSchemaToDynamic(
                            sub, propName, u, path \o "/" \o propName),
                          IsOptional(propName, required))>> \o rest

convertJSONSchemaToDynamic(dict, name, u, path) ==
  IF AsString(dict, "$ref") # NULL THEN RefNode(AsString(dict, "$ref"))
  ELSE IF IsArrayOf(dict, "anyOf", "obj")
  THEN LET anyOf == AsDictArray(dict, "anyOf")
           stringChoices == ConvertAnyOf(anyOf, 1, "string", u, path)
           dynamicChoices == ConvertAnyOf(anyOf, 1, "dynamic", u, path)
       IN IF stringChoices # <<>> /\ dynamicChoices = <<>>
          THEN EnumNode(OrElse(name, UUID(u, path)),
                        AsString(dict, "description"), stringChoices)
          ELSE UnionNode(OrElse(name, UUID(u, path)),
                         AsString(dict, "description"),
                         IF dynamicChoices = <<>>
                         THEN [i \in 1..Len(anyOf) |->
                                 convertJSONSchemaToDynamic(
                                   anyOf[i], NULL, u,
                                   path \o "/anyOf/" \o ToString(i))]
                         ELSE dynamicChoices)
  ELSE IF IsArrayOf(dict, "enum", "str")
  THEN EnumNode(OrElse(name, UUID(u, path)), AsString(dict, "description"),
                AsStringArray(dict, "enum"))
  ELSE IF AsString(dict, "type") = NULL THEN TypeNode("String")
  ELSE LET type == AsString(dict, "type")
       IN IF type = "array"
          THEN (IF HasDict(dict, "items")
                THEN ArrayNode(convertJSONSchemaToDynamic(
                                 AsDict(dict, "items"), NULL, u, path \o "/items"),
                               AsInt(dict, "minItems"), AsInt(dict, "maxItems"))
                ELSE ArrayNode(TypeNode("String"), NULL, NULL))
          ELSE IF type = "object"
          THEN ObjectNode(OrElse(name, "Object"), AsString(dict, "description"),
                 IF ~HasDict(dict, "properties") THEN <<>>
                 ELSE ConvertProps(AsDict(dict, "properties"),
                                   IterKeys(AsDict(dict, "properties")),
                                   IF IsArrayOf(dict, "required", "str")
                                   THEN AsStringArray(dict, "required")
                                   ELSE <<>>,
                                   u, path))
          ELSE TypeNode(ScalarType(type))

DefsPrefix == "#/definitions/"

HasPrefix(str, pre) == Len(pre) <= Len(str) /\ SubSeq(str, 1, Len(pre)) = pre

\* rootNameFromRef of buildSchemasFromJson.
RootNameFromRef(json) ==
  IF AsString(json, "$ref") = NULL THEN NULL
  ELSE IF HasPrefix(AsString(json, "$ref"), DefsPrefix)
       THEN SubSeq(AsString(json, "$ref"), Len(DefsPrefix) + 1,
                   Len(AsString(json, "$ref")))
       ELSE NULL

\* if let rootNameFromRef, name == rootNameFromRef { continue }
SkipsNothing(name, rootNameFromRef) == FALSE
SkipsRootDefinition(name, rootNameFromRef) ==
  rootNameFromRef # NULL /\ name = rootNameFromRef

\* The loop over definitions, in the dictionary's iteration order.
RECURSIVE BuildDependencies(_, _, _, _)
BuildDependencies(defs, ks, rootNameFromRef, u) ==
  IF ks = <<>> THEN <<>>
  ELSE LET name == Head(ks)
           sub == Get(defs, name)
           rest == BuildDependencies(defs, Tail(ks), rootNameFromRef, u)
       IN IF sub.t # "obj" THEN rest
          ELSE IF SkipsRootDefinition(name, rootNameFromRef) THEN rest
          ELSE <<convertJSONSchemaToDynamic(
                   sub, name, u, "/definitions/" \o name)>> \o rest

\* buildSchemasFromJson(json): <<root, dependencies>>
buildSchemasFromJson(json, u) ==
  LET rootNameFromRef == RootNameFromRef(json)
      defs == AsDict(json, "definitions")
      dependencies ==
        IF ~HasDict(json, "definitions") THEN <<>>
        ELSE BuildDependencies(defs, IterKeys(defs), rootNameFromRef, u)
  IN IF /\ rootNameFromRef # NULL
        /\ HasDict(json, "definitions")
        /\ HasDict(defs, rootNameFromRef)
     THEN <<convertJSONSchemaToDynamic(
              AsDict(defs, rootNameFromRef), rootNameFromRef, u,
              "/definitions/" \o rootNameFromRef),
            dependencies>>
     ELSE <<convertJSONSchemaToDynamic(json, AsString(json, "title"), u, ""),
            dependencies>>

----------------------------------------------------------------------------
(***************************************************************************)
(* parseToolCalls of the chat model: the TOOL_CALL regular expression run  *)
(* over the text of a response.                                            *)
(***************************************************************************)
VARIABLES
  content,    \* the text handed to parseToolCalls
  tools,      \* the tool catalog handed to it
  segments,   \* how content was written: prose and TOOL_CALL blocks
  pState,     \* "input" before the call, "parsed" after it
  parsed      \* the returned {text, toolCalls}

VARIABLES
  availability,    \* SystemLanguageModel.default.availability
  responseFormat,  \* "json": responseFormat of type json with a schema
  gState,          \* "input" before doGenerate is called, "settled" after it
  gResult          \* what doGenerate returned or threw

VARIABLES
  entry,      \* the native entry point called: "oneShot", "history", "tools"
  messages,   \* messagesJson: whether it decodes, and the [ChatMessage] list
  toolDefinitions,  \* toolsJson decoded: the tool names
  mState,     \* "input" before the call, "settled" after it
  mResult     \* what the call came to

msgVars == <<entry, messages, toolDefinitions, mState, mResult>>

genVars == <<availability, responseFormat, gState, gResult, msgVars>>

parseVars == <<content, tools, segments, pState, parsed, genVars>>

\* The character at index i of text (1-based), "" outside of the text.
At(text, i) == IF i >= 1 /\ i <= Len(text) THEN SubSeq(text, i, i) ELSE ""
Sub(text, from, to) == IF from > to THEN "" ELSE SubSeq(text, from, to)
StartsAt(text, i, lit) ==
  i >= 1 /\ i + Len(lit) - 1 <= Len(text)
         /\ SubSeq(text, i, i + Len(lit) - 1) = lit

\* The character classes \s, [\t ] and \w.
SpaceChars == {" ", "\t", "\n", "\r", "\f"}
BlankChars == {" ", "\t"}
WordChars ==
  {"a", "b", "c", "d", "e", "f", "g", "h", "i", "j", "k", "l", "m", "n", "o",
   "p", "q", "r", "s", "t", "u", "v", "w", "x", "y", "z",
   "A", "B", "C", "D", "E", "F", "G", "H", "I", "J", "K", "L", "M", "N", "O",
   "P", "Q", "R", "S", "T", "U", "V", "W", "X", "Y", "Z",
   "0", "1", "2", "3", "4", "5", "6", "7", "8", "9", "_"}

\* class*, greedy, from index i: the index of the first character not in
\* the class.
Least(S, none) ==
  IF S = {} THEN none ELSE CHOOSE i \in S : \A j \in S : i <= j
Greatest(S, none) ==
  IF S = {} THEN none ELSE CHOOSE i \in S : \A j \in S : i >= j
Skip(text, i, class) ==
  Least({j \in i..(Len(text) + 1) : At(text, j) \notin class}, i)

\* \{[\s\S]*?\}(?:\n|$) with the "{" at index open: the index of the "}" that
\* ends the lazy match (0 when there is none).
FollowedByNewlineOrEnd(text, i) == i = Len(text) \/ At(text, i + 1) = "\n"
CloseFrom(text, i) ==
  Least({j \in i..Len(text) :
           At(text, j) = "}" /\ FollowedByNewlineOrEnd(text, j)}, 0)

NoMatch == [ok |-> FALSE]

\* toolCallRegex applied at index i:
\* /TOOL_CALL:\s*(\w+)[\t ]*\n[\t ]*ARGUMENTS:\s*(\{[\s\S]*?\})(?:\n|$)/
MatchAt(text, i) ==
  LET nameFrom == Skip(text, i + Len("TOOL_CALL:"), SpaceChars)
      nameEnd == Skip(text, nameFrom, WordChars)
      lineEnd == Skip(text, nameEnd, BlankChars)
      argsKey == Skip(text, lineEnd + 1, BlankChars)
      open == Skip(text, argsKey + Len("ARGUMENTS:"), SpaceChars)
      close == CloseFrom(text, open + 1)
  IN IF /\ StartsAt(text, i, "TOOL_CALL:")
        /\ nameEnd > nameFrom
        /\ At(text, lineEnd) = "\n"
        /\ StartsAt(text, argsKey, "ARGUMENTS:")
        /\ At(text, open) = "{"
        /\ close # 0
     THEN [ok |-> TRUE, start |-> i,
           end |-> IF close = Len(text) THEN close ELSE close + 1,
           name |-> SubSeq(text, nameFrom, nameEnd - 1),
           args |-> SubSeq(text, open, close)]
     ELSE NoMatch

\* The matches of the global regex from index i on (exec loop, replace).
RECURSIVE Matches(_, _)
Matches(text, i) ==
  LET at == Least({j \in i..Len(text) : MatchAt(text, j).ok}, 0)
  IN IF at = 0 THEN <<>>
     ELSE <<MatchAt(text, at)>> \o Matches(text, MatchAt(text, at).end + 1)

\* content.replace(toolCallRegex, ""): the text from index i on without the
\* matches k, k+1, ...
RECURSIVE Replace(_, _, _, _)
Replace(text, i, ms, k) ==
  IF k > Len(ms) THEN Sub(text, i, Len(text))
  ELSE Sub(text, i, ms[k].start - 1) \o Replace(text, ms[k].end + 1, ms, k + 1)

\* String.prototype.trim
TrimStart(text) == Sub(text, Skip(text, 1, SpaceChars), Len(text))
TrimEnd(text) ==
  Sub(text, 1,
      Greatest({j \in 1..Len(text) : At(text, j) \notin SpaceChars}, 0))
Trim(text) == TrimEnd(TrimStart(text))

\* `call_${Math.random().toString(36).substr(2, 9)}`: the k-th id drawn.
CallId(k) == "call_" \o ToString(k)

ToolCall(k, toolName, args) ==
  [toolCallType |-> "function", toolCallId |-> CallId(k),
   toolName |-> toolName, args |-> args]

\* JSON.parse on the texts the model feeds: LegacyText is the one text that
\* is JSON.
LegacyText ==
  "{\"tool_calls\":[{\"id\":\"c1\",\"function\":{\"name\":\"weather\",\"arguments\":{}}}]}"
LegacyJson ==
  JObj(<< <<"tool_calls",
            JArr(<<JObj(<< <<"id", JStr("c1")>>,
                           <<"function",
                             JObj(<< <<"name", JStr("weather")>>,
                                     <<"arguments", JObj(<<>>)>> >>)>> >>)>>)>> >>)
SyntaxError == [t |-> "SyntaxError"]
JNull == [t |-> "null"]

\* Documents with a tool_calls member of other shapes.
Call(members) == JObj(<< <<"tool_calls", JArr(<<JObj(members)>>)>> >>)
EmptyCallsText == "{\"tool_calls\":[]}"
NamelessCallText == "{\"tool_calls\":[{\"function\":{}}]}"
NoArgumentsCallText == "{\"tool_calls\":[{\"function\":{\"name\":\"weather\"}}]}"
NoFunctionCallText == "{\"tool_calls\":[{\"id\":\"c1\"}]}"
BadArgumentsCallText ==
  "{\"tool_calls\":[{\"function\":{\"name\":\"weather\",\"arguments\":\"{\"}}]}"
StringCallsText == "{\"tool_calls\":\"none\"}"
LegacyTexts ==
  { <<LegacyText, LegacyJson>>,
    <<EmptyCallsText, JObj(<< <<"tool_calls", JArr(<<>>)>> >>)>>,
    <<NamelessCallText, Call(<< <<"function", JObj(<<>>)>> >>)>>,
    <<NoArgumentsCallText,
      Call(<< <<"function", JObj(<< <<"name", JStr("weather")>> >>)>> >>)>>,
    <<NoFunctionCallText, Call(<< <<"id", JStr("c1")>> >>)>>,
    <<BadArgumentsCallText,
      Call(<< <<"function", JObj(<< <<"name", JStr("weather")>>,
                                    <<"arguments", JStr("{")>> >>)>> >>)>>,
    <<StringCallsText, JObj(<< <<"tool_calls", JStr("none")>> >>)>>,
    <<"null", JNull>> }

\* JSON.parse: the texts fed that are JSON (surrounded by any whitespace),
\* each with its value; every other text fed is a SyntaxError.
JsonTexts ==
  LegacyTexts \cup { <<"{\"a\":1}", JObj(<< <<"a", JNum(1)>> >>)>> }
JSONparse(text) ==
  IF \E p \in JsonTexts : p[1] = Trim(text)
  THEN (CHOOSE p \in JsonTexts : p[1] = Trim(text))[2]
  ELSE SyntaxError

\* value.key of a value that is not null or undefined: undefined unless
\* the value is an object holding the key.
Undefined == [t |-> "undefined"]
Member(value, k) ==
  IF value.t = "obj" /\ HasKey(value, k) THEN Get(value, k) ELSE Undefined

\* call.function.arguments, parsed when it is a string.
LegacyArgs(function) ==
  IF Member(function, "arguments").t = "str"
  THEN JSONparse(Member(function, "arguments").s)
  ELSE Member(function, "arguments")

\* parsed.tool_calls.map(...) throws: call.function is read off a call that
\* has none (call.function.name of undefined or null), or JSON.parse throws.
LegacyThrows(legacy) ==
  \E i \in 1..Len(legacy) :
    \/ Member(legacy[i], "function").t \in {"undefined", "null"}
    \/ LegacyArgs(Member(legacy[i], "function")) = SyntaxError

LegacyToolCalls(legacy) ==
  [i \in 1..Len(legacy) |->
     [toolCallType |-> "function",
      toolCallId |-> IF AsString(legacy[i], "id") \notin {NULL, ""}
                     THEN AsString(legacy[i], "id") ELSE CallId(i),
      toolName |-> IF Member(Member(legacy[i], "function"), "name").t = "str"
                   THEN Member(Member(legacy[i], "function"), "name").s
                   ELSE NULL,
      args |-> LegacyArgs(Member(legacy[i], "function"))]]

\* The returned object: text is NULL when undefined; toolCalls is undefined
\* when hasToolCalls is FALSE.
Returned(text, hasToolCalls, toolCalls) ==
  [text |-> text, hasToolCalls |-> hasToolCalls, toolCalls |-> toolCalls]

\* The tools argument: undefined, or an array of tool names.
NoCatalog == [defined |-> FALSE, list |-> <<>>]
Catalog(list) == [defined |-> TRUE, list |-> list]

\* if (!tools || tools.length === 0)
NoToolsGiven(catalog) == ~catalog.defined
NoTools(catalog) == ~catalog.defined \/ Len(catalog.list) = 0

\* parseToolCalls(content, tools)
parseToolCalls(text, catalog) ==
  IF NoTools(catalog)
  THEN Returned(text, FALSE, <<>>)
  ELSE LET ms == Matches(text, 1)
           cleanedContent == Trim(Replace(text, 1, ms, 1))
           json == JSONparse(text)
       IN IF ms # <<>>
          THEN Returned(IF cleanedContent = "" THEN NULL ELSE cleanedContent,
                        TRUE,
                        [k \in 1..Len(ms) |->
                           ToolCall(k, ms[k].name, ms[k].args)])
          ELSE IF /\ json.t = "obj"
                  /\ HasKey(json, "tool_calls")
                  /\ Get(json, "tool_calls").t = "arr"
                  /\ ~LegacyThrows(Get(json, "tool_calls").items)
          THEN Returned(NULL, TRUE,
                        LegacyToolCalls(Get(json, "tool_calls").items))
          ELSE Returned(text, FALSE, <<>>)

----------------------------------------------------------------------------
(***************************************************************************)
(* AppleAIChatLanguageModel.doStream: the                                  *)
(* ReadableStream whose start(controller) runs                             *)
(*   for await (const chunk of stream) { ... }                             *)
(* over streamChatCompletion.                                              *)
(***************************************************************************)
VARIABLES
  dsState,             \* "idle": doStream not called; "awaiting": start() awaits
                       \*   the promise of its latest next(); "closed": finish was
                       \*   enqueued and controller.close() called; "errored":
                       \*   controller.error(error) called; "returned": the loop
                       \*   ended and start() returned without close or error
  parts,               \* what controller.enqueue has been given, in order
  accumulatedContent,  \* let accumulatedContent
  parses               \* the texts self.parseToolCalls was called with

dsVars == <<dsState, parts, accumulatedContent, parses>>

DsInit ==
  /\ dsState = "idle"
  /\ parts = <<>>
  /\ accumulatedContent = ""
  /\ parses = <<>>

NoCall == [toolCallId |-> NULL, toolName |-> NULL, args |-> NULL]
TextDelta(t) == [type |-> "text-delta", textDelta |-> t, call |-> NoCall]
FinishPart == [type |-> "finish", textDelta |-> NULL, call |-> NoCall]
ToolCallPart(toolCall) ==
  [type |-> "tool-call", textDelta |-> NULL,
   call |-> [toolCallId |-> toolCall.toolCallId,
             toolName |-> toolCall.toolName, args |-> toolCall.args]]

\* for (const toolCall of parsedResponse.toolCalls) controller.enqueue(...)
\* when tools are offered and the accumulated content holds tool calls.
ToolCallPartsFirstOnly(text, catalog) ==
  IF /\ catalog.defined /\ Len(catalog.list) > 0
     /\ parseToolCalls(text, catalog).hasToolCalls
  THEN <<ToolCallPart(parseToolCalls(text, catalog).toolCalls[1])>>
  ELSE <<>>
ToolCallParts(text, catalog) ==
  IF /\ catalog.defined /\ Len(catalog.list) > 0
     /\ parseToolCalls(text, catalog).hasToolCalls
  THEN [k \in 1..Len(parseToolCalls(text, catalog).toolCalls) |->
          ToolCallPart(parseToolCalls(text, catalog).toolCalls[k])]
  ELSE <<>>

\* new ReadableStream({ async start(controller) { ... } }): start runs at
\* construction, up to the first await of stream.next().
dsStart ==
  /\ mode = "chat"
  /\ dsState = "idle"
  /\ dsState' = "awaiting"
  /\ next
  /\ UNCHANGED <<parts, accumulatedContent, parses, prodVars>>

\* The awaited promise has settled and start() resumes: one pass of the loop
\* body, then the next stream.next(); or the end of the loop; or the catch.
dsResume ==
  /\ dsState = "awaiting"
  /\ LET r == promises[Len(promises)]
     IN /\ r.st # "pending"
        /\ IF r.st = "rejected"
           THEN /\ dsState' = "errored"
                /\ UNCHANGED <<parts, accumulatedContent, parses, bridgeVars>>
           ELSE IF r.done
           THEN /\ dsState' = "returned"
                /\ UNCHANGED <<parts, accumulatedContent, parses, bridgeVars>>
           ELSE LET chunk == r.value
                    hasContent == chunk.content # NULL /\ chunk.content # ""
                    withDelta == IF hasContent
                                 THEN Append(parts, TextDelta(chunk.content))
                                 ELSE parts
                    accumulated == IF hasContent
                                   THEN accumulatedContent \o chunk.content
                                   ELSE accumulatedContent
                IN /\ accumulatedContent' = accumulated
                   /\ IF chunk.finish_reason = "stop"
                      THEN /\ parses' =
                                (IF tools.defined /\ Len(tools.list) > 0
                                 THEN Append(parses, accumulated)
                                 ELSE parses)
                           /\ parts' = withDelta
                                         \o ToolCallParts(accumulated, tools)
                                         \o <<FinishPart>>
                           /\ dsState' = "closed"
                           /\ return
                      ELSE /\ parts' = withDelta
                           /\ dsState' = "awaiting"
                           /\ next
                           /\ UNCHANGED parses
  /\ UNCHANGED prodVars

----------------------------------------------------------------------------
(***************************************************************************)
(* doGenerate of the chat model.                                           *)
(***************************************************************************)
\* appleAIGetAvailabilityReason: the reason string of an availability.
Availabilities ==
  {"available", "deviceNotEligible", "appleIntelligenceNotEnabled",
   "modelNotReady"}
reasonString(a) ==
  IF a = "available" THEN "Model is available"
  ELSE IF a = "deviceNotEligible"
  THEN "Device not eligible for Apple Intelligence. Supported devices: iPhone 15 Pro/Pro Max or newer, iPad with M1 chip or newer, Mac with Apple Silicon"
  ELSE IF a = "appleIntelligenceNotEnabled"
  THEN "Apple Intelligence not enabled. Enable it in Settings > Apple Intelligence & Siri"
  ELSE "AI model not ready. Models are downloaded automatically based on network status, battery level, and system load. Please wait and try again later."

\* native.checkAvailability(): {available, reason}
checkAvailability(a) ==
  [available |-> a = "available", reason |-> reasonString(a)]

\* String.prototype.indexOf (0-based, -1 when absent) and substring.
IndexFrom(text, lit, i) ==
  Least({j \in i..(Len(text) - Len(lit)) : StartsAt(text, j + 1, lit)}, -1)
indexOf(text, lit) == IndexFrom(text, lit, 0)
Clamp(text, i) == IF i < 0 THEN 0 ELSE IF i > Len(text) THEN Len(text) ELSE i
substring(text, start, end) ==
  LET a == Clamp(text, start)
      b == Clamp(text, end)
  IN IF a <= b THEN Sub(text, a + 1, b) ELSE Sub(text, b + 1, a)

\* The content between the markdown code block, as doGenerate extracts it.
\* (the character "^" stands for the grave accent of the markdown fence,
\* which a string of this module cannot hold)
trimStart == "^^^json"
trimEnd == "^^^"
Extract(text) ==
  substring(text, indexOf(text, trimStart) + Len(trimStart),
            indexOf(text, trimEnd))

\* What doGenerate settles with.
GenReturned(text, toolCalls, object) ==
  [outcome |-> "returned", text |-> text, toolCalls |-> toolCalls,
   object |-> object, message |-> ""]
GenThrew(message) ==
  [outcome |-> "threw", text |-> "", toolCalls |-> <<>>,
   object |-> Undefined, message |-> message]
GenerationError == "generation failed"

\* parsedResponse.text || content
TextOr(text, dflt) == IF text = NULL \/ text = "" THEN dflt ELSE text

\* doGenerate, run on the answer content of the model (generateResponseWithHistory
\* may also reject).
doGenerate ==
  /\ gState = "input"
  /\ gState' = "settled"
  /\ IF ~checkAvailability(availability).available
     THEN /\ gResult' = GenThrew("Apple Intelligence not available: "
                                   \o checkAvailability(availability).reason)
          /\ UNCHANGED <<pState, parsed>>
     ELSE \E rejects \in BOOLEAN :
            IF rejects
            THEN /\ gResult' = GenThrew(GenerationError)
                 /\ UNCHANGED <<pState, parsed>>
            ELSE IF responseFormat = "json"
            THEN /\ gResult' =
                      IF JSONparse(Extract(content)) = SyntaxError
                      THEN GenThrew("Invalid JSON response: "
                                      \o Extract(content))
                      ELSE GenReturned(Extract(content), <<>>,
                                       JSONparse(Extract(content)))
                 /\ UNCHANGED <<pState, parsed>>
            ELSE /\ pState' = "parsed"
                 /\ parsed' = parseToolCalls(content, tools)
                 /\ gResult' =
                      GenReturned(
                        TextOr(parseToolCalls(content, tools).text, content),
                        parseToolCalls(content, tools).toolCalls,
                        Undefined)
  /\ UNCHANGED <<content, tools, segments, availability, responseFormat,
                 msgVars, bridgeVars, prodVars, dsVars, compVars>>

----------------------------------------------------------------------------
(***************************************************************************)
(* The native entry points: appleAIGenerateResponse, ...WithHistory,       *)
(* ...WithTools.                                                           *)
(***************************************************************************)
MaxMessages == 3

\* message.role.lowercased()
Roles == {"system", "user", "assistant", "tool", "System"}
lowercased(role) == IF role = "System" THEN "system" ELSE role

ChatMessage(role, text) == [role |-> role, content |-> text]

\* Transcript.Entry: .instructions, .prompt, .response with one text segment.
Entry(kind, text) == [kind |-> kind, content |-> text]

\* convertMessagesToTranscript: the for loop appending one entry a message.
EntryOfKnownRoles(message) ==
  IF lowercased(message.role) = "system"
  THEN <<Entry("instructions", message.content)>>
  ELSE IF lowercased(message.role) = "user"
  THEN <<Entry("prompt", message.content)>>
  ELSE IF lowercased(message.role) = "assistant"
  THEN <<Entry("response", message.content)>>
  ELSE <<>>
EntryOf(message) ==
  IF lowercased(message.role) = "system"
  THEN <<Entry("instructions", message.content)>>
  ELSE IF lowercased(message.role) = "user"
  THEN <<Entry("prompt", message.content)>>
  ELSE IF lowercased(message.role) = "assistant"
  THEN <<Entry("response", message.content)>>
  ELSE <<Entry("prompt", message.content)>>

RECURSIVE convertMessagesToTranscript(_)
convertMessagesToTranscript(list) ==
  IF list = <<>> THEN <<>>
  ELSE EntryOf(Head(list)) \o convertMessagesToTranscript(Tail(list))

\* Array(messages.dropLast()) when messages.count > 1, else []
dropLast(list) ==
  IF Len(list) > 1 THEN SubSeq(list, 1, Len(list) - 1) ELSE <<>>

\* The instructions naming the tools, inserted at index 0.
RECURSIVE toolDescriptions(_)
toolDescriptions(names) ==
  IF names = <<>> THEN ""
  ELSE "Tool: " \o Head(names) \o "\n\n" \o toolDescriptions(Tail(names))
WithToolInstructions(names, entries) ==
  IF names # <<>>
  THEN <<Entry("instructions",
               "You have access to the following tools:\n\n"
                 \o toolDescriptions(names))>> \o entries
  ELSE entries

\* What a call comes to: the string handed back (or the process trapping),
\* and the session it ran: the transcript, the prompt responded to.
Settled(str) ==
  [outcome |-> "returned", result |-> str, invoked |-> FALSE,
   entries |-> <<>>, transcript |-> <<>>, prompt |-> ""]
Responded(str, entries, transcript, prompt) ==
  [outcome |-> "returned", result |-> str, invoked |-> TRUE,
   entries |-> entries, transcript |-> transcript, prompt |-> prompt]
Trapped ==
  [outcome |-> "crashed", result |-> "", invoked |-> FALSE,
   entries |-> <<>>, transcript |-> <<>>, prompt |-> ""]

NotAvailableError == "Error: Apple Intelligence not available"
\* "Error: \(error.localizedDescription)" of the error JSONDecoder throws.
DecodingError == "Error: The data is not in the correct format."
ResponseContent == "Hello"
\* JSONSerialization of ["text": ..., "toolCalls": []]: the key order is
\* not fixed.
ResponseJsons ==
  { "{\"text\":\"" \o ResponseContent \o "\",\"toolCalls\":[]}",
    "{\"toolCalls\":[],\"text\":\"" \o ResponseContent \o "\"}" }

\* session.respond(to:options:) returns the response or throws.
Responds(results, entries, transcript, prompt) ==
  \/ \E r \in results : mResult' = Responded(r, entries, transcript, prompt)
  \/ mResult' = Responded("Error: " \o GenerationError, entries, transcript,
                          prompt)

\* appleAIGenerateResponse(prompt, temperature, maxTokens)
appleAIGenerateResponse ==
  /\ mState = "input" /\ entry = "oneShot"
  /\ mState' = "settled"
  /\ IF availability # "available"
     THEN mResult' = Settled(NotAvailableError)
     ELSE Responds({ResponseContent}, <<>>, <<>>, "Hi")
  /\ UNCHANGED <<entry, messages, toolDefinitions, availability,
                 responseFormat, gState, gResult, content, tools, segments,
                 pState, parsed, bridgeVars, prodVars, dsVars, compVars>>

\* appleAIGenerateResponseWithHistory(messagesJson, temperature, maxTokens)
appleAIGenerateResponseWithHistory ==
  /\ mState = "input" /\ entry = "history"
  /\ mState' = "settled"
  /\ IF availability # "available"
     THEN mResult' = Settled(NotAvailableError)
     ELSE IF ~messages.decodes
     THEN mResult' = Settled(DecodingError)
     ELSE IF messages.list = <<>>
     THEN mResult' = Settled("Error: No messages provided")
     ELSE LET lastMessage == messages.list[Len(messages.list)]
              transcriptEntries ==
                convertMessagesToTranscript(dropLast(messages.list))
          IN Responds({ResponseContent}, transcriptEntries,
                      transcriptEntries, lastMessage.content)
  /\ UNCHANGED <<entry, messages, toolDefinitions, availability,
                 responseFormat, gState, gResult, content, tools, segments,
                 pState, parsed, bridgeVars, prodVars, dsVars, compVars>>

\* appleAIGenerateResponseWithTools(messagesJson, toolsJson, temperature,
\* maxTokens): messages.last! traps on the empty list.
appleAIGenerateResponseWithTools ==
  /\ mState = "input" /\ entry = "tools"
  /\ mState' = "settled"
  /\ IF availability # "available"
     THEN mResult' = Settled(NotAvailableError)
     ELSE IF ~messages.decodes
     THEN mResult' = Settled(DecodingError)
     ELSE IF messages.list = <<>>
     THEN mResult' = Trapped
     ELSE LET lastMessage == messages.list[Len(messages.list)]
              transcriptEntries ==
                convertMessagesToTranscript(dropLast(messages.list))
          IN Responds(ResponseJsons, transcriptEntries,
                      WithToolInstructions(toolDefinitions,
                                           transcriptEntries),
                      lastMessage.content)
  /\ UNCHANGED <<entry, messages, toolDefinitions, availability,
                 responseFormat, gState, gResult, content, tools, segments,
                 pState, parsed, bridgeVars, prodVars, dsVars, compVars>>

MsgIdle ==
  /\ entry = "oneShot"
  /\ messages = [decodes |-> TRUE, list |-> <<>>]
  /\ toolDefinitions = <<>>
  /\ mState = "input"
  /\ mResult = Settled("")

----------------------------------------------------------------------------
vars == <<bridgeVars, prodVars, dsVars, compVars, parseVars>>

\* The names used as keys of definitions and of properties.
DefNames == {"Foo", "Bar"}
PropNames == {"a", "b"}
KeyNames == DefNames \cup PropNames

Orders ==
  {o \in [1..Cardinality(KeyNames) -> KeyNames] :
     \A i, j \in 1..Cardinality(KeyNames) : o[i] = o[j] => i = j}

\* Schema fragments used as definitions and as inline roots.
StringSchema == JObj(<< <<"type", JStr("string")>> >>)
Fragments ==
  { StringSchema,
    JObj(<< <<"type", JStr("integer")>> >>),
    JObj(<< <<"enum", JArr(<<JStr("x"), JStr("y")>>)>> >>),
    JObj(<< <<"type", JStr("object")>>,
            <<"required", JArr(<<JStr("a")>>)>>,
            <<"properties",
              JObj(<< <<"a", StringSchema>>,
                      <<"b", JObj(<< <<"$ref", JStr("#/definitions/Bar")>> >>)>> >>)>> >>),
    JObj(<< <<"type", JStr("array")>>,
            <<"items", JObj(<< <<"type", JStr("number")>> >>)>>,
            <<"minItems", JNum(1)>> >>),
    JObj(<< <<"anyOf", JArr(<<JObj(<< <<"enum", JArr(<<JStr("x")>>)>> >>),
                              JObj(<< <<"type", JStr("boolean")>> >>)>>)>> >>),
    JObj(<< <<"$ref", JStr("#/definitions/Bar")>> >>),
    JObj(<< <<"type", JStr("tuple")>> >>) }

\* What a definitions entry can be: a fragment, or a value that is no object.
DefValues == Fragments \cup {JStr("oops")}

Definitions ==
  {<<>>}
    \cup {<< <<"Foo", f>> >> : f \in DefValues}
    \cup {<< <<"Foo", f>>, <<"Bar", g>> >> : f \in DefValues, g \in Fragments}
    \cup {<< <<"Bar", g>>, <<"Foo", f>> >> : f \in {StringSchema}, g \in Fragments}

RootRefs ==
  {"#/definitions/Foo", "#/definitions/Bar", "#/definitions/Baz", "#/$defs/Foo"}

\* An object schema whose property a refers to the object definition Foo.
NestedRefDoc ==
  JObj(<< <<"definitions",
            JObj(<< <<"Foo", JObj(<< <<"type", JStr("object")>>,
                                     <<"properties",
                                       JObj(<< <<"a", StringSchema>> >>)>> >>)>> >>)>>,
          <<"type", JStr("object")>>,
          <<"properties",
            JObj(<< <<"a", JObj(<< <<"$ref", JStr("#/definitions/Foo")>> >>)>> >>)>> >>)

\* {"type":"object","required":["a"],"properties":{"a":{...},"b":{...}}}
OrderedObjectDoc ==
  JObj(<< <<"type", JStr("object")>>,
          <<"required", JArr(<<JStr("a")>>)>>,
          <<"properties",
            JObj(<< <<"a", StringSchema>>,
                    <<"b", JObj(<< <<"type", JStr("integer")>> >>)>> >>)>> >>)

\* An object without title whose property a is an array of objects.
TwoObjectsDoc ==
  JObj(<< <<"type", JStr("object")>>,
          <<"properties",
            JObj(<< <<"a", JObj(<< <<"type", JStr("array")>>,
                                   <<"items",
                                     JObj(<< <<"type", JStr("object")>> >>)>> >>)>> >>)>> >>)

\* An object whose property a is the boolean schema true.
BooleanPropertyDoc ==
  JObj(<< <<"type", JStr("object")>>,
          <<"required", JArr(<<JStr("b")>>)>>,
          <<"properties",
            JObj(<< <<"a", JBool(TRUE)>>, <<"b", StringSchema>> >>)>> >>)

\* {"anyOf":[{"enum":["x"]},{"enum":["y"]},{"enum":["z"]}]}
AllEnumDoc ==
  JObj(<< <<"anyOf",
            JArr(<<JObj(<< <<"enum", JArr(<<JStr("x")>>)>> >>),
                   JObj(<< <<"enum", JArr(<<JStr("y")>>)>> >>),
                   JObj(<< <<"enum", JArr(<<JStr("z")>>)>> >>)>>)>> >>)

\* Schemas with an absent or unrecognized type at the root, in array items
\* and in properties, down to depth two.
EmptySchema == JObj(<<>>)
TupleSchema == JObj(<< <<"type", JStr("tuple")>> >>)
ArrayOf(items) == JObj(<< <<"type", JStr("array")>>, <<"items", items>> >>)
FallbackDocs ==
  { EmptySchema,
    JObj(<< <<"type", JNum(1)>> >>),
    ArrayOf(TupleSchema),
    ArrayOf(ArrayOf(EmptySchema)),
    JObj(<< <<"type", JStr("object")>>,
            <<"properties",
              JObj(<< <<"a", EmptySchema>>,
                      <<"b", ArrayOf(TupleSchema)>> >>)>> >>) }

ExampleDocs ==
  {NestedRefDoc, OrderedObjectDoc, TwoObjectsDoc, BooleanPropertyDoc,
   AllEnumDoc} \cup FallbackDocs

\* Documents: definitions followed by a root $ref, and inline roots.
Docs ==
  ExampleDocs \cup
  {JObj(<< <<"definitions", JObj(d)>>, <<"$ref", JStr(r)>> >>) :
     d \in Definitions, r \in RootRefs}
    \cup {JObj(<< <<"definitions", JObj(d)>> >> \o f.kv) :
            d \in {<<>>, << <<"Bar", StringSchema>> >>}, f \in Fragments}
    \cup {JObj(<< <<"title", JStr("T")>> >> \o f.kv) : f \in Fragments}

\* The texts of a response: prose, and TOOL_CALL blocks as the tool prompt
\* asks for them, the line of the arguments ended by a newline (nl = "\n")
\* or by the end of the text (nl = "").
Prose(text) == [kind |-> "prose", text |-> text]
Block(name, args, nl) ==
  [kind |-> "block", name |-> name, args |-> args,
   text |-> "TOOL_CALL: " \o name \o "\nARGUMENTS: " \o args \o nl]
IndentedBlock(name, args, nl) ==
  [kind |-> "block", name |-> name, args |-> args,
   text |-> "TOOL_CALL:" \o name \o " \t\n  ARGUMENTS:\n" \o args \o nl]

ProseSegments == {Prose("Let me check.\n"), Prose("Done."), Prose(" \n")}
BlockSegments(nl) ==
  { Block("weather", "{\"city\":\"Paris\"}", nl),
    IndentedBlock("t_2", "{not json}", nl),
    Block("f", "{\"a\":{\"b\":1}}", nl),
    Block("f", "{\n  \"a\": {\n    \"b\": 1\n  }\n}", nl) }

MaxSegments == 3

\* Sequences of segments in which only the last one may end without a
\* newline.
SegmentLists ==
  UNION {[1..n -> ProseSegments \cup BlockSegments("\n")] :
           n \in 0..MaxSegments}
    \cup UNION {{Append(pre, b) :
                   pre \in [1..n -> ProseSegments \cup BlockSegments("\n")],
                   b \in BlockSegments("")} : n \in 0..(MaxSegments - 1)}
    \cup {<<Prose(p[1])>> : p \in LegacyTexts}

RECURSIVE TextOfSegments(_)
TextOfSegments(segs) ==
  IF segs = <<>> THEN "" ELSE Head(segs).text \o TextOfSegments(Tail(segs))

ToolCatalogs ==
  {NoCatalog, Catalog(<<>>), Catalog(<<"weather">>), Catalog(<<"weather", "f">>)}

GenIdle ==
  /\ availability = "available"
  /\ responseFormat = "text"
  /\ gState = "input"
  /\ gResult = GenThrew("")
  /\ MsgIdle

ParseIdle ==
  /\ content = ""
  /\ tools = NoCatalog
  /\ segments = <<>>
  /\ pState = "input"
  /\ parsed = Returned(NULL, FALSE, <<>>)
  /\ GenIdle

\* doGenerate / doStream: parsedResponse = parseToolCalls(content, tools)
parse ==
  /\ pState = "input"
  /\ pState' = "parsed"
  /\ parsed' = parseToolCalls(content, tools)
  /\ UNCHANGED <<content, tools, segments, genVars, bridgeVars, prodVars,
                 dsVars, compVars>>

StructIdle ==
  /\ available = TRUE
  /\ result = "Error: No response"
  /\ responded = 0

CompIdle ==
  /\ seed = <<"Foo", "Bar", "a", "b">>
  /\ cDoc = JObj(<<>>)
  /\ cState = "input"
  /\ cRoot = NULL
  /\ cDeps = <<>>
  /\ cRoot2 = NULL
  /\ cDeps2 = <<>>
  /\ StructIdle

Init ==
  /\ \E m \in {"response", "chat"} : BridgeInit(m)
  /\ ProdInit /\ DsInit /\ CompIdle /\ ParseIdle

\* appleAIGenerateResponseStructured: let (rootSchema, deps) =
\* buildSchemasFromJson(jsonObj)
compile ==
  /\ cState = "input"
  /\ cState' = "compiled"
  /\ cRoot' = buildSchemasFromJson(cDoc, "U1:")[1]
  /\ cDeps' = buildSchemasFromJson(cDoc, "U1:")[2]
  /\ UNCHANGED <<seed, cDoc, cRoot2, cDeps2, structVars, bridgeVars, prodVars,
                 dsVars, parseVars>>

\* A second call with the same schema document, in the same process: its
\* UUID() values are fresh ones.
recompile ==
  /\ cState = "compiled"
  /\ cState' = "recompiled"
  /\ cRoot2' = buildSchemasFromJson(cDoc, "U2:")[1]
  /\ cDeps2' = buildSchemasFromJson(cDoc, "U2:")[2]
  /\ UNCHANGED <<seed, cDoc, cRoot, cDeps, structVars, bridgeVars, prodVars,
                 dsVars, parseVars>>

CompileInit ==
  /\ BridgeInit("response") /\ ProdInit /\ DsInit /\ ParseIdle
  /\ seed \in Orders
  /\ cDoc \in Docs
  /\ cState = "input"
  /\ cRoot = NULL
  /\ cDeps = <<>>
  /\ cRoot2 = NULL
  /\ cDeps2 = <<>>
  /\ StructIdle

\* Schema texts that parse to JSON whose root is no object, and a text that
\* is no JSON at all.
NotJson == [t |-> "invalid"]
BadRoots == {JArr(<<>>), JArr(<<StringSchema>>), NotJson}

\* "Error: \(error.localizedDescription)" for the errors thrown by
\* JSONSerialization, by GenerationSchema(root:dependencies:) and by
\* session.respond.
Thrown(by) == "Error: " \o by
InvalidSchemaResult == "Error: Invalid JSON Schema"
UnavailableResult == "Error: Apple Intelligence not available"
Generated == "{\"text\":...,\"object\":...}"

\* The guard of the schema parse: the parsed value is a dictionary.
RootIsDictionary(json) == json.t = "obj"

\* appleAIGenerateResponseStructured, from the availability guard to the
\* returned string. The framework calls GenerationSchema(root:dependencies:)
\* and session.respond may each throw; the code lays down no condition of
\* its own for either.
generateStructured ==
  /\ cState = "input"
  /\ cState' = "returned"
  /\ IF ~available
     THEN /\ result' = UnavailableResult
          /\ UNCHANGED <<cRoot, cDeps, responded>>
     ELSE IF cDoc = NotJson
     THEN /\ result' = Thrown("JSONSerialization")
          /\ UNCHANGED <<cRoot, cDeps, responded>>
     ELSE IF ~RootIsDictionary(cDoc)
     THEN /\ result' = InvalidSchemaResult
          /\ UNCHANGED <<cRoot, cDeps, responded>>
     ELSE /\ cRoot' = buildSchemasFromJson(cDoc, "U1:")[1]
          /\ cDeps' = buildSchemasFromJson(cDoc, "U1:")[2]
          /\ \E schemaThrows, respondThrows \in BOOLEAN :
               IF schemaThrows
               THEN /\ result' = Thrown("GenerationSchema")
                    /\ UNCHANGED responded
               ELSE /\ responded' = responded + 1
                    /\ result' = IF respondThrows THEN Thrown("respond")
                                  ELSE Generated
  /\ UNCHANGED <<seed, cDoc, cRoot2, cDeps2, available, bridgeVars, prodVars,
                 dsVars, parseVars>>

ParseInit ==
  /\ BridgeInit("response") /\ ProdInit /\ DsInit /\ CompIdle
  /\ segments \in SegmentLists
  /\ content = TextOfSegments(segments)
  /\ tools \in ToolCatalogs
  /\ pState = "input"
  /\ parsed = Returned(NULL, FALSE, <<>>)
  /\ GenIdle

SpecParse == ParseInit /\ [][parse]_vars

\* The answers of the model that doGenerate is run on: texts of up to two
\* segments, and answers in a markdown code block.
FencedAnswers ==
  { <<Prose("^^^json\n{\"a\":1}\n^^^")>>,
    <<Prose("^^^json{\"a\":1}^^^")>>,
    <<Prose("{\"a\":1}")>>,
    <<Prose("Here it is:\n^^^json\n{\"a\":1}\n^^^\n")>> }

GenerateInit ==
  /\ BridgeInit("response") /\ ProdInit /\ DsInit /\ CompIdle
  /\ segments \in {sl \in SegmentLists : Len(sl) < MaxSegments} \cup FencedAnswers
  /\ content = TextOfSegments(segments)
  /\ tools \in ToolCatalogs
  /\ pState = "input"
  /\ parsed = Returned(NULL, FALSE, <<>>)
  /\ availability \in Availabilities
  /\ responseFormat \in {"text", "json"}
  /\ gState = "input"
  /\ gResult = GenThrew("")
  /\ MsgIdle

SpecGenerate == GenerateInit /\ [][doGenerate]_vars

\* The message lists handed to the native entry points.
MessageLists ==
  UNION {[1..n -> {ChatMessage(r, t) : r \in Roles, t \in {"a", "b"}}] :
           n \in 0..MaxMessages}

NativeInit ==
  /\ BridgeInit("response") /\ ProdInit /\ DsInit /\ CompIdle
  /\ segments = <<>> /\ content = "" /\ tools = NoCatalog
  /\ pState = "input" /\ parsed = Returned(NULL, FALSE, <<>>)
  /\ availability \in Availabilities
  /\ responseFormat = "text" /\ gState = "input" /\ gResult = GenThrew("")
  /\ entry \in {"oneShot", "history", "tools"}
  /\ \/ /\ messages \in {[decodes |-> TRUE, list |-> l] : l \in MessageLists}
        /\ entry # "oneShot"
     \/ messages = [decodes |-> FALSE, list |-> <<>>]
  /\ toolDefinitions \in
       IF entry = "tools" THEN {<<>>, <<"weather">>} ELSE {<<>>}
  /\ mState = "input"
  /\ mResult = Settled("")

SpecNative ==
  NativeInit /\ [][\/ appleAIGenerateResponse
                   \/ appleAIGenerateResponseWithHistory
                   \/ appleAIGenerateResponseWithTools]_vars

StructuredInit ==
  /\ BridgeInit("response") /\ ProdInit /\ DsInit /\ ParseIdle
  /\ seed = <<"Foo", "Bar", "a", "b">>
  /\ cDoc \in Docs \cup BadRoots
  /\ cState = "input"
  /\ cRoot = NULL
  /\ cDeps = <<>>
  /\ cRoot2 = NULL
  /\ cDeps2 = <<>>
  /\ available \in BOOLEAN
  /\ result = "Error: No response"
  /\ responded = 0

SpecStructured == StructuredInit /\ [][generateStructured]_vars

SpecCompile == CompileInit /\ [][compile \/ recompile]_vars

\* The bridge with an arbitrary producer and an arbitrary consumer.
producerCalls ==
  /\ Len(calls) < MaxCalls
  /\ \E p \in Payloads : handleChunk(p) \/ chatHandleChunk(p)
  /\ UNCHANGED <<prodVars, dsVars, compVars, parseVars>>

consumerPulls ==
  /\ Len(promises) < MaxPulls
  /\ next
  /\ UNCHANGED <<prodVars, dsVars, compVars, parseVars>>

consumerCancels ==
  /\ return
  /\ UNCHANGED <<prodVars, dsVars, compVars, parseVars>>

Next ==
  \/ producerCalls
  \/ consumerPulls
  \/ consumerCancels

Spec == Init /\ [][Next]_vars

\* A single consumer pulling sequentially (for await ... of stream).
sequentialPull ==
  /\ Len(promises) < MaxPulls
  /\ \A i \in 1..Len(promises) : promises[i].st # "pending"
  /\ next
  /\ UNCHANGED <<prodVars, dsVars, compVars, parseVars>>

\* The bridge driven by the Swift producer, read by a sequential consumer.
StreamNext ==
  \/ swiftUnavailable /\ UNCHANGED <<dsVars, compVars, parseVars>>
  \/ swiftStart /\ UNCHANGED <<dsVars, compVars, parseVars>>
  \/ \E c \in Texts : swiftYield(c) /\ UNCHANGED <<dsVars, compVars, parseVars>>
  \/ swiftFinish /\ UNCHANGED <<dsVars, compVars, parseVars>>
  \/ swiftThrow /\ UNCHANGED <<dsVars, compVars, parseVars>>
  \/ sequentialPull

SpecStream == Init /\ [][StreamNext]_vars

\* doStream over the bridge driven by the Swift producer. The first next()
\* is called in the same synchronous run that created the stream, before
\* any native callback can be dispatched.
DoStreamNext ==
  \/ dsStart /\ UNCHANGED <<compVars, parseVars>>
  \/ dsState # "idle" /\ swiftUnavailable /\ UNCHANGED <<dsVars, compVars, parseVars>>
  \/ dsState # "idle" /\ swiftStart /\ UNCHANGED <<dsVars, compVars, parseVars>>
  \/ \E c \in Texts : dsState # "idle" /\ swiftYield(c) /\ UNCHANGED <<dsVars, compVars, parseVars>>
  \/ dsState # "idle" /\ swiftFinish /\ UNCHANGED <<dsVars, compVars, parseVars>>
  \/ dsState # "idle" /\ swiftThrow /\ UNCHANGED <<dsVars, compVars, parseVars>>
  \/ dsResume /\ UNCHANGED <<compVars, parseVars>>

SpecDoStream == Init /\ [][DoStreamNext]_vars

\* doStream with tools offered: the cumulative texts of answers that hold
\* TOOL_CALL blocks, reported block by block or in the middle of a block.
ToolAnswers ==
  { "Let me check.\n",
    "Let me check.\nTOOL_CALL: weather\n",
    "Let me check.\nTOOL_CALL: weather\nARGUMENTS: {\"city\":\"Paris\"}\n",
    "Let me check.\nTOOL_CALL: weather\nARGUMENTS: {\"city\":\"Paris\"}\nTOOL_CALL: f\nARGUMENTS: {}",
    "TOOL_CALL: f\nARGUMENTS: {}",
    "TOOL_CALL: f\nARGUMENTS: {}\nDone.",
    "Done." }

ToolStreamInit ==
  /\ BridgeInit("chat") /\ ProdInit /\ DsInit /\ CompIdle
  /\ segments = <<>> /\ content = ""
  /\ tools \in {NoCatalog, Catalog(<<"weather", "f">>)}
  /\ pState = "input" /\ parsed = Returned(NULL, FALSE, <<>>)
  /\ GenIdle

DoStreamToolsNext ==
  \/ dsStart /\ UNCHANGED <<compVars, parseVars>>
  \/ dsState # "idle" /\ swiftUnavailable /\ UNCHANGED <<dsVars, compVars, parseVars>>
  \/ dsState # "idle" /\ swiftStart /\ UNCHANGED <<dsVars, compVars, parseVars>>
  \/ \E c \in ToolAnswers : dsState # "idle" /\ swiftYield(c) /\ UNCHANGED <<dsVars, compVars, parseVars>>
  \/ dsState # "idle" /\ swiftFinish /\ UNCHANGED <<dsVars, compVars, parseVars>>
  \/ dsState # "idle" /\ swiftThrow /\ UNCHANGED <<dsVars, compVars, parseVars>>
  \/ dsResume /\ UNCHANGED <<compVars, parseVars>>

SpecDoStreamTools == ToolStreamInit /\ [][DoStreamToolsNext]_vars

----------------------------------------------------------------------------
(***************************************************************************)
(* What the consumer has observed and what the producer has sent.          *)
(***************************************************************************)
\* A delivered or queued item that carries text (in chat mode the final
\* chunk with finish_reason "stop" carries none).
IsDelta(item) == IF mode = "chat" THEN item.finish_reason = NULL ELSE TRUE
TextOf(item) == IF mode = "chat" THEN item.content ELSE item

RECURSIVE TextsOf(_)
TextsOf(items) ==
  IF items = <<>> THEN <<>>
  ELSE IF IsDelta(Head(items)) THEN <<TextOf(Head(items))>> \o TextsOf(Tail(items))
  ELSE TextsOf(Tail(items))

RECURSIVE ResolvedItems(_)
ResolvedItems(ps) ==
  IF ps = <<>> THEN <<>>
  ELSE IF Head(ps).st = "resolved" /\ ~Head(ps).done
       THEN <<Head(ps).value>> \o ResolvedItems(Tail(ps))
       ELSE ResolvedItems(Tail(ps))

\* Texts the consumer has received, in the order of its next() calls.
DeliveredDeltas == TextsOf(ResolvedItems(promises))
QueuedDeltas == TextsOf(queue)

RECURSIVE ProducedDeltas(_)
ProducedDeltas(cs) ==
  IF cs = <<>> THEN <<>>
  ELSE IF Head(cs).err = NULL /\ ~IsEnd(Head(cs).chunk)
       THEN <<Head(cs).chunk>> \o ProducedDeltas(Tail(cs))
       ELSE ProducedDeltas(Tail(cs))

IsTerminal(p) == p.err # NULL \/ IsEnd(p.chunk)
\* Index in calls of the first end-of-stream or error payload, 0 if none yet.
TermAt ==
  IF \E i \in 1..Len(calls) : IsTerminal(calls[i])
  THEN CHOOSE i \in 1..Len(calls) :
         IsTerminal(calls[i]) /\ \A j \in 1..(i - 1) : ~IsTerminal(calls[j])
  ELSE 0

Finished(r) == r.st = "resolved" /\ r.done

----------------------------------------------------------------------------
\* C1: after the consumer cancels (return()), every later next() resolves to
\* finished (done: true), whatever was buffered before or arrives afterwards.
C1_AfterCancelFinished ==
  cancelAt >= 0 =>
    \A i \in (cancelAt + 1)..Len(promises) : Finished(promises[i])

\* C2: once an end-of-stream or error payload has been processed, no later
\* handler invocation gets a further delta delivered: the consumer never holds
\* more deltas than were produced up to the terminal payload.
C2_NoDeliveryAfterTerminal ==
  TermAt > 0 =>
    Len(DeliveredDeltas) <= Len(ProducedDeltas(SubSeq(calls, 1, TermAt)))

\* C3: an error that arrives while no pull is pending is surfaced as a
\* rejected next() (after the queued deltas), exactly once: a later pull
\* reports finished only after a pull was rejected, and at most one pull is
\* rejected.
C3_QuietErrorRejectsOnce ==
  (errAt >= 0 /\ cancelAt = -1 /\ ~overlap) =>
    /\ \A i \in (errAt + 1)..Len(promises) :
         Finished(promises[i]) =>
           \E j \in (errAt + 1)..(i - 1) : promises[j].st = "rejected"
    /\ Cardinality({i \in 1..Len(promises) : promises[i].st = "rejected"}) <= 1

\* C4: with sequential pulls and no cancellation the deltas received so far,
\* followed by the ones still buffered, are exactly the non-empty deltas the
\* producer passed to the handler, in the same order.
C4_DeltasInOrder ==
  (cancelAt = -1 /\ ~overlap) =>
    DeliveredDeltas \o QueuedDeltas = ProducedDeltas(calls)

C4_Witness ==
  /\ cancelAt = -1 /\ ~overlap
  /\ Len(DeliveredDeltas) >= 2
  /\ DeliveredDeltas[1] # DeliveredDeltas[2]
  /\ Len(QueuedDeltas) >= 1

\* C5: when a second next() is called while the first is pending, neither
\* pull is dropped: once the producer has terminated the stream no promise
\* returned by next() is still pending.
C5_ConcurrentPullsSettle ==
  TermAt > 0 => \A i \in 1..Len(promises) : promises[i].st # "pending"

\* C6: a suspended next() of streamResponse is settled by the very next
\* handler invocation: rejected on an error, finished on end-of-stream,
\* resolved with the delta otherwise (single consumer, sequential pulls).
C6_Handoff ==
  (/\ mode = "response" /\ ~overlap
   /\ Len(calls') = Len(calls) + 1) =>
    \A i \in 1..Len(promises) :
      promises[i].st = "pending" =>
        LET p == calls'[Len(calls')]
        IN IF p.err # NULL THEN promises'[i] = Rejected(p.err)
           ELSE IF IsEnd(p.chunk) THEN promises'[i] = Resolved(NULL, TRUE)
           ELSE promises'[i] = Resolved(p.chunk, FALSE)

----------------------------------------------------------------------------
(***************************************************************************)
(* The Swift producer seen from the consumer.                              *)
(***************************************************************************)
\* The non-empty increments c_i[len(c_(i-1)):] of a run of cumulative texts.
RECURSIVE Diffs(_, _)
Diffs(cs, pv) ==
  IF cs = <<>> THEN <<>>
  ELSE LET d == SubSeq(Head(cs), Len(pv) + 1, Len(Head(cs)))
       IN (IF d = "" THEN <<>> ELSE <<d>>) \o Diffs(Tail(cs), Head(cs))

RECURSIVE Concat(_)
Concat(ts) == IF ts = <<>> THEN "" ELSE Head(ts) \o Concat(Tail(ts))

LastCum == IF cums = <<>> THEN "" ELSE cums[Len(cums)]

\* No increment of the run begins with the reserved sentinel character.
NoSentinelDelta ==
  \A i \in 1..Len(Diffs(cums, "")) :
    First(Diffs(cums, "")[i]) # ERROR_SENTINEL

\* Every delta was handed out before the first finished result.
DeltasBeforeFinished ==
  \A i \in 1..Len(promises) : \A j \in (i + 1)..Len(promises) :
    Finished(promises[i]) => promises[j].done

\* C7 as stated: for any prefix-stable run of cumulative texts followed by
\* end-of-stream, the consumer receives the increments in order, then
\* finished, and their concatenation is the last cumulative text.
C7_AnyRunConcat ==
  (pstate = "finished" /\ \E i \in 1..Len(promises) : Finished(promises[i])) =>
    /\ DeliveredDeltas = Diffs(cums, "")
    /\ Concat(DeliveredDeltas) = LastCum
    /\ DeltasBeforeFinished

\* C7 amended: the same, for runs in which no increment begins with the
\* sentinel character (the producer drops such an increment). While the
\* stream runs, the deltas received and buffered are the increments so far.
C7_DeltasConcat ==
  (pstate \in {"loop", "finished"} /\ NoSentinelDelta) =>
    /\ DeliveredDeltas \o QueuedDeltas = Diffs(cums, "")
    /\ Concat(DeliveredDeltas \o QueuedDeltas) = LastCum
    /\ DeltasBeforeFinished
    /\ (\E i \in 1..Len(promises) : Finished(promises[i])) =>
         (pstate = "finished" /\ QueuedDeltas = <<>>)

\* The run "a", "ab", "aba", end: three deltas, then finished.
C7_Witness ==
  /\ mode = "response" /\ pstate = "finished"
  /\ cums = <<"a", "ab", "aba">>
  /\ DeliveredDeltas = <<"a", "b", "a">>
  /\ Len(promises) = 4 /\ Finished(promises[4])

\* C8: a cumulative text identical to the previous one produces no event:
\* the handler is not invoked and the consumer gets no item for it.
C8_RepeatStep ==
  (Len(cums') = Len(cums) + 1 /\ cums'[Len(cums')] = prev) =>
    (calls' = calls /\ queue' = queue /\ promises' = promises /\ done' = done)

C8_RepeatAbsorbed == [][C8_RepeatStep]_vars

\* The run "ab", "ab", end has yielded exactly one delta and then finished.
C8_Witness ==
  /\ pstate = "finished" /\ mode = "response"
  /\ cums = <<"ab", "ab">>
  /\ Len(promises) = 2
  /\ promises[1] = Resolved("ab", FALSE) /\ Finished(promises[2])

----------------------------------------------------------------------------
\* start() is neither about to resume nor waiting for the producer.
DsAtRest ==
  ~(dsState = "awaiting" /\ promises[Len(promises)].st # "pending")

\* C9: once the producer has terminated, the ReadableStream of doStream ends
\* with a finish part followed by close, or in the errored state; it is never
\* left open without a terminal outcome, and a failure ends it errored.
C9_TerminalOutcome ==
  (dsState # "idle" /\ pstate \in {"finished", "failed"} /\ DsAtRest) =>
    /\ dsState \in {"closed", "errored"}
    /\ dsState = "closed" => parts[Len(parts)] = FinishPart
    /\ pstate = "failed" => dsState = "errored"

----------------------------------------------------------------------------
(***************************************************************************)
(* The schema compiler.                                                    *)
(***************************************************************************)
\* The name a compiled node carries (primitive, array and reference nodes
\* carry none).
NameOf(node) ==
  IF node.kind \in {"enum", "union", "object"} THEN node.name ELSE NULL

\* The root $ref names a definition, and definitions holds a schema (a JSON
\* object) under that name.
RootRefIsObject ==
  /\ RootNameFromRef(cDoc) # NULL
  /\ HasDict(cDoc, "definitions")
  /\ HasDict(AsDict(cDoc, "definitions"), RootNameFromRef(cDoc))

RootDef == AsDict(AsDict(cDoc, "definitions"), RootNameFromRef(cDoc))

ExampleRefDoc ==
  JObj(<< <<"definitions", JObj(<< <<"Foo", StringSchema>> >>)>>,
          <<"$ref", JStr("#/definitions/Foo")>> >>)

RECURSIVE RefsIn(_)
RefsIn(node) ==
  IF node.kind = "ref" THEN {node.name}
  ELSE IF node.kind = "union"
  THEN UNION {RefsIn(node.choices[i]) : i \in 1..Len(node.choices)}
  ELSE IF node.kind = "array" THEN RefsIn(node.items)
  ELSE IF node.kind = "object"
  THEN UNION {RefsIn(node.properties[i].schema) :
                i \in 1..Len(node.properties)}
  ELSE {}

\* The Reference names reachable from the root or from any dependency, and
\* the names of the returned dependencies.
ReachableRefs ==
  RefsIn(cRoot) \cup UNION {RefsIn(cDeps[i]) : i \in 1..Len(cDeps)}
DependencyNames == {NameOf(cDeps[i]) : i \in 1..Len(cDeps)} \ {NULL}

\* The $ref strings written anywhere in a JSON value.
RECURSIVE RefsWritten(_)
RefsWritten(j) ==
  IF j.t = "obj"
  THEN (IF AsString(j, "$ref") # NULL THEN {AsString(j, "$ref")} ELSE {})
         \cup UNION {RefsWritten(j.kv[i][2]) : i \in 1..Len(j.kv)}
  ELSE IF j.t = "arr"
  THEN UNION {RefsWritten(j.items[i]) : i \in 1..Len(j.items)}
  ELSE {}

\* Every $ref of the document is "#/definitions/<name>" for a name under
\* which definitions holds a schema.
EveryRefDefined ==
  \A r \in RefsWritten(cDoc) :
    /\ HasPrefix(r, DefsPrefix)
    /\ HasDict(cDoc, "definitions")
    /\ HasDict(AsDict(cDoc, "definitions"),
               SubSeq(r, Len(DefsPrefix) + 1, Len(r)))

\* C11 as stated: in a compiled document whose $refs all name present
\* definitions, every Reference node reachable from the root or from a
\* dependency carries the name of an entry of the returned dependencies.
C11_ReferencesResolve ==
  (cState = "compiled" /\ EveryRefDefined) =>
    ReachableRefs \subseteq DependencyNames

\* The nested reference of NestedRefDoc is compiled under the full "$ref"
\* string while the dependency built from definitions.Foo is named "Foo".
C11_NestedRefUnresolved ==
  /\ cState = "compiled" /\ cDoc = NestedRefDoc
  /\ ReachableRefs = {"#/definitions/Foo"}
  /\ DependencyNames = {"Foo"}

\* The root is compiled by the object case of convertJSONSchemaToDynamic: no
\* $ref, anyOf or enum, type "object", and a properties object.
RootIsObjectSchema ==
  /\ AsString(cDoc, "$ref") = NULL
  /\ ~IsArrayOf(cDoc, "anyOf", "obj")
  /\ ~IsArrayOf(cDoc, "enum", "str")
  /\ AsString(cDoc, "type") = "object"
  /\ HasDict(cDoc, "properties")

\* The keys of a JSON object in document (insertion) order.
DocumentKeys(o) == [i \in 1..Len(o.kv) |-> o.kv[i][1]]

\* The property names of a compiled Object node, in list order.
PropertyNames(node) ==
  [i \in 1..Len(node.properties) |-> node.properties[i].name]

\* C12 as stated: the compiled Object node lists its properties in the
\* document's key order, for every document and every compile run.
C12_PropertiesInDocumentOrder ==
  (cState = "compiled" /\ RootIsObjectSchema) =>
    PropertyNames(cRoot) =
      SelectSeq(DocumentKeys(AsDict(cDoc, "properties")),
                LAMBDA k : HasDict(AsDict(cDoc, "properties"), k))

\* The example document compiled to the property list [b, a].
C12_ExampleReordered ==
  /\ cState = "compiled" /\ cDoc = OrderedObjectDoc
  /\ PropertyNames(cRoot) = <<"b", "a">>

\* The root is compiled by the anyOf case of convertJSONSchemaToDynamic.
RootIsAnyOf ==
  /\ AsString(cDoc, "$ref") = NULL
  /\ IsArrayOf(cDoc, "anyOf", "obj")

RootAnyOf == AsDictArray(cDoc, "anyOf")

\* anyOf has single-value enum branches and general branches.
MixedAnyOf(anyOf) ==
  /\ \E i \in 1..Len(anyOf) : IsSingleEnum(anyOf[i])
  /\ \E i \in 1..Len(anyOf) : ~IsSingleEnum(anyOf[i])

\* A variant of a union that is the literal string v.
IsLiteralVariant(node, v) == node.kind = "enum" /\ node.choices = <<v>>

\* C13 as stated: a mixed anyOf compiles to a Union with one variant per
\* branch, every single-value enum branch present as a literal variant.
C13_NoBranchAbsent ==
  (cState = "compiled" /\ RootIsAnyOf /\ MixedAnyOf(RootAnyOf)) =>
    /\ cRoot.kind = "union"
    /\ Len(cRoot.choices) = Len(RootAnyOf)
    /\ \A i \in 1..Len(RootAnyOf) :
         IsSingleEnum(RootAnyOf[i]) =>
           \E j \in 1..Len(cRoot.choices) :
             IsLiteralVariant(cRoot.choices[j],
                              AsStringArray(RootAnyOf[i], "enum")[1])

\* The keys written anywhere in a JSON value.
RECURSIVE KeysWritten(_)
KeysWritten(j) ==
  IF j.t = "obj"
  THEN KeysOf(j) \cup UNION {KeysWritten(j.kv[i][2]) : i \in 1..Len(j.kv)}
  ELSE IF j.t = "arr"
  THEN UNION {KeysWritten(j.items[i]) : i \in 1..Len(j.items)}
  ELSE {}

\* C14 as stated: for a document without $ref and without anyOf, compiling
\* the same document twice yields equal results: same root node, same
\* names, same property order, same dependencies.
C14_CompileTwiceEqual ==
  (cState = "recompiled" /\ KeysWritten(cDoc) \cap {"$ref", "anyOf"} = {}) =>
    /\ cRoot2 = cRoot
    /\ cDeps2 = cDeps

\* The names carried by the object, enum and union nodes of a compiled
\* tree, one entry per node.
RECURSIVE NamesIn(_)
RECURSIVE NamesInAll(_, _)
NamesInAll(nodes, i) ==
  IF i > Len(nodes) THEN <<>>
  ELSE NamesIn(nodes[i]) \o NamesInAll(nodes, i + 1)
NamesIn(node) ==
  IF node.kind = "enum" THEN <<node.name>>
  ELSE IF node.kind = "union"
  THEN <<node.name>> \o NamesInAll(node.choices, 1)
  ELSE IF node.kind = "array" THEN NamesIn(node.items)
  ELSE IF node.kind = "object"
  THEN <<node.name>>
         \o NamesInAll([i \in 1..Len(node.properties) |->
                          node.properties[i].schema], 1)
  ELSE <<>>

\* The names of all nodes one invocation produced.
ProducedNames == NamesIn(cRoot) \o NamesInAll(cDeps, 1)

\* C15 as stated: within one compile invocation every object, enum or
\* union node carries a name, and no two distinct nodes share a name.
C15_NamesUnique ==
  cState = "compiled" =>
    /\ \A i \in 1..Len(ProducedNames) : ProducedNames[i] # NULL
    /\ \A i, j \in 1..Len(ProducedNames) :
         ProducedNames[i] = ProducedNames[j] => i = j

\* The two anonymous objects of TwoObjectsDoc are both named "Object".
C15_TwoObjectsSameName ==
  /\ cState = "compiled" /\ cDoc = TwoObjectsDoc
  /\ ProducedNames = <<"Object", "Object">>

\* Some $ref of the document points outside "#/definitions/".
RefOutsideDefinitions ==
  cDoc.t = "obj" /\ \E r \in RefsWritten(cDoc) : ~HasPrefix(r, DefsPrefix)

\* C16 as stated: when the schema document is not a JSON object at the root
\* or a $ref in it points outside #/definitions/, structured generation
\* ends with the InvalidSchema error outcome and has performed no model
\* generation.
C16_InvalidSchemaRejected ==
  (/\ cState = "returned" /\ available
   /\ cDoc \in {JArr(<<>>), JArr(<<StringSchema>>)} \/ RefOutsideDefinitions) =>
    /\ result = InvalidSchemaResult
    /\ responded = 0

\* A root that is no object is rejected before anything is compiled.
C16_NonObjectRootRejected ==
  (cState = "returned" /\ available /\ cDoc.t = "arr") =>
    /\ result = InvalidSchemaResult
    /\ responded = 0

\* A root $ref outside #/definitions/ is compiled to a Reference node and
\* handed to the framework; the model is asked to generate.
C16_OutsideRefGenerates ==
  /\ cState = "returned" /\ RefOutsideDefinitions
  /\ responded = 1 /\ result = Generated
  /\ cRoot = RefNode("#/$defs/Foo")

\* The names in the required list of the root schema (none when absent).
RootRequired ==
  IF HasKey(cDoc, "required") /\ Get(cDoc, "required").t = "arr"
  THEN {Get(cDoc, "required").items[i].s :
          i \in {j \in 1..Len(Get(cDoc, "required").items) :
                   Get(cDoc, "required").items[j].t = "str"}}
  ELSE {}

RootProperties == AsDict(cDoc, "properties")

\* The property nodes of the compiled root that carry the name k.
NodesNamed(k) ==
  {i \in 1..Len(cRoot.properties) : cRoot.properties[i].name = k}

C17_BooleanPropertySkipped ==
  /\ cState = "compiled" /\ cDoc = BooleanPropertyDoc
  /\ PropertyNames(cRoot) = <<"b">>
  /\ ~cRoot.properties[1].isOptional

\* C18: when anyOf is not empty and every branch is a single-value enum,
\* the result is an Enum whose values are the branch values in branch
\* order, one per branch.
C18_AllEnumBranches ==
  (/\ cState = "compiled" /\ RootIsAnyOf /\ RootAnyOf # <<>>
   /\ \A i \in 1..Len(RootAnyOf) : IsSingleEnum(RootAnyOf[i])) =>
    /\ cRoot.kind = "enum"
    /\ cRoot.choices =
         [i \in 1..Len(RootAnyOf) |-> Get(RootAnyOf[i], "enum").items[1].s]

\* The example compiled to Enum{values: ["x", "y", "z"]}.
C18_Witness ==
  /\ cState = "compiled" /\ cDoc = AllEnumDoc
  /\ cRoot.kind = "enum"
  /\ cRoot.choices = <<"x", "y", "z">>

\* A fragment with no $ref, anyOf or enum.
PlainFragment(frag) ==
  frag.t = "obj" /\ KeysOf(frag) \cap {"$ref", "anyOf", "enum"} = {}

\* A plain fragment whose type is absent or unrecognized.
RecognizedTypes ==
  {"string", "number", "integer", "boolean", "array", "object"}
Unconstrained(frag) ==
  PlainFragment(frag) /\ AsString(frag, "type") \notin RecognizedTypes

\* Every unconstrained fragment met on the way down from frag through array
\* items and object properties is compiled to the String node.
RECURSIVE FallbackAt(_, _)
FallbackAt(frag, node) ==
  IF Unconstrained(frag) THEN node = TypeNode("String")
  ELSE IF PlainFragment(frag) /\ AsString(frag, "type") = "array"
          /\ HasDict(frag, "items")
  THEN node.kind = "array" /\ FallbackAt(AsDict(frag, "items"), node.items)
  ELSE IF PlainFragment(frag) /\ AsString(frag, "type") = "object"
          /\ HasDict(frag, "properties")
  THEN /\ node.kind = "object"
       /\ \A i \in 1..Len(node.properties) :
            FallbackAt(Get(AsDict(frag, "properties"), node.properties[i].name),
                       node.properties[i].schema)
  ELSE TRUE

NodeKinds == {"type", "ref", "enum", "union", "array", "object"}

\* C19: compiling a document that is a JSON object returns a node, and a
\* fragment with an absent or unrecognized type (and no $ref, anyOf or
\* enum) is compiled to the String node, at the root and at any depth.
C19_FallbackString ==
  cState = "compiled" =>
    /\ cRoot.kind \in NodeKinds
    /\ \A i \in 1..Len(cDeps) : cDeps[i].kind \in NodeKinds
    /\ AsString(cDoc, "$ref") = NULL => FallbackAt(cDoc, cRoot)

\* An array of arrays of {} compiled: the innermost element is String.
C19_Witness ==
  /\ cState = "compiled" /\ cDoc = ArrayOf(ArrayOf(EmptySchema))
  /\ cRoot.items.items = TypeNode("String")

----------------------------------------------------------------------------
(***************************************************************************)
(* parseToolCalls.                                                         *)
(***************************************************************************)
\* The blocks the text was written with, in text order, and the text
\* without them.
BlocksWritten == SelectSeq(segments, LAMBDA sg : sg.kind = "block")
ProseWritten ==
  TextOfSegments(SelectSeq(segments, LAMBDA sg : sg.kind = "prose"))

\* One tool call per block written, in text order, with the block's name and
\* argument text, and the text without the blocks, trimmed.
CallsMatchBlocks ==
  /\ parsed.hasToolCalls
  /\ Len(parsed.toolCalls) = Len(BlocksWritten)
  /\ \A k \in 1..Len(BlocksWritten) :
       /\ parsed.toolCalls[k].toolName = BlocksWritten[k].name
       /\ parsed.toolCalls[k].args = BlocksWritten[k].args
  /\ parsed.text = IF Trim(ProseWritten) = "" THEN NULL ELSE Trim(ProseWritten)

\* C20 as stated: with a non-empty catalog and a text containing k >= 1
\* blocks, parseToolCalls returns exactly k tool calls in text order, each
\* with the name and the argument text of its block verbatim, and the
\* returned text is the input with the blocks removed, trimmed.
C20_BlocksBecomeCalls ==
  (/\ pState = "parsed" /\ tools.defined /\ tools.list # <<>>
   /\ BlocksWritten # <<>>) =>
    CallsMatchBlocks

\* The same, for blocks whose argument text has no "}" at the end of a line
\* before its last character (arguments on one line among them).
C20_ArgumentsWithoutInnerLineEnd ==
  (/\ pState = "parsed" /\ tools.defined /\ tools.list # <<>>
   /\ BlocksWritten # <<>>
   /\ \A k \in 1..Len(BlocksWritten) :
        CloseFrom(BlocksWritten[k].args, 2) = Len(BlocksWritten[k].args)) =>
    CallsMatchBlocks

\* A block with pretty-printed nested arguments: the call carries the
\* arguments cut at the inner "}" and the rest stays in the text.
C20_ArgumentsCut ==
  /\ pState = "parsed"
  /\ content = "TOOL_CALL: f\nARGUMENTS: {\n  \"a\": {\n    \"b\": 1\n  }\n}"
  /\ parsed.hasToolCalls
  /\ parsed.toolCalls[1].args = "{\n  \"a\": {\n    \"b\": 1\n  }"
  /\ parsed.text = "}"

----------------------------------------------------------------------------
(***************************************************************************)
(* doGenerate.                                                             *)
(***************************************************************************)
\* Removing the matched blocks leaves nothing but whitespace.
OnlyBlocksMatched ==
  /\ Matches(content, 1) # <<>>
  /\ Trim(Replace(content, 1, Matches(content, 1), 1)) = ""

\* doGenerate went through the regular text branch and returned.
RegularReturned ==
  /\ gState = "settled" /\ gResult.outcome = "returned"
  /\ responseFormat = "text"

\* C21 as stated: when removing the matched blocks leaves only whitespace,
\* parseToolCalls returns no text, and doGenerate reports no textual answer
\* either (in particular no text containing the tool-call blocks).
C21_NoTextForBlocksOnly ==
  (/\ RegularReturned /\ tools.defined /\ tools.list # <<>>
   /\ OnlyBlocksMatched) =>
    /\ parsed.text = NULL
    /\ gResult.text \in {NULL, ""}

\* The extraction result itself carries no text in that case.
C21_ExtractionWithoutText ==
  (/\ pState = "parsed" /\ tools.defined /\ tools.list # <<>>
   /\ OnlyBlocksMatched) =>
    parsed.text = NULL /\ parsed.hasToolCalls

\* doGenerate on one block and nothing else: the tool call is returned
\* together with the whole answer, block included, as text.
C21_BlockReturnedAsText ==
  /\ RegularReturned /\ tools.defined /\ tools.list # <<>>
  /\ content = "TOOL_CALL: weather\nARGUMENTS: {\"city\":\"Paris\"}\n"
  /\ parsed.text = NULL
  /\ Len(gResult.toolCalls) = 1
  /\ gResult.text = content

----------------------------------------------------------------------------
\* C22: with an empty or absent tool catalog parseToolCalls returns the
\* full text unchanged and no tool calls, for every text, texts with
\* TOOL_CALL blocks or a legacy tool_calls document included.
C22_EmptyCatalogReturnsText ==
  (pState = "parsed" /\ (~tools.defined \/ tools.list = <<>>)) =>
    /\ parsed.text = content
    /\ ~parsed.hasToolCalls
    /\ parsed.toolCalls = <<>>

\* A text with a well-formed block parsed with the empty catalog.
C22_Witness ==
  /\ pState = "parsed" /\ tools = Catalog(<<>>)
  /\ content = "Let me check.\nTOOL_CALL: weather\nARGUMENTS: {\"city\":\"Paris\"}\n"
  /\ parsed.text = content
  /\ ~parsed.hasToolCalls

----------------------------------------------------------------------------
\* A tool_calls array of {id?, function: {name, arguments}} entries.
ShapedCall(call) ==
  /\ call.t = "obj"
  /\ Member(call, "function").t = "obj"
  /\ Member(Member(call, "function"), "name").t = "str"
  /\ Member(Member(call, "function"), "arguments").t # "undefined"
ShapedCalls(json) ==
  /\ Member(json, "tool_calls").t = "arr"
  /\ \A i \in 1..Len(Member(json, "tool_calls").items) :
        ShapedCall(Member(json, "tool_calls").items[i])
ParsedAfterNoMatch ==
  pState = "parsed" /\ ~NoTools(tools) /\ Matches(content, 1) = <<>>

\* C23: when no primary-format block matched and the whole text does not
\* parse as JSON, or parses to something without a tool_calls array of
\* {id?, function: {name, arguments}} entries, parseToolCalls returns the
\* entire input as text with no tool calls.
C23_UnshapedReturnsText ==
  (ParsedAfterNoMatch /\ ~ShapedCalls(JSONparse(content))) =>
    parsed = Returned(content, FALSE, <<>>)

\* C23, the part that holds: the fallback returns tool calls only when no
\* block matched, and the text is returned whole when it is not JSON, has
\* no tool_calls array, or mapping an entry throws (an entry without a
\* function, string arguments that are not JSON).
C23_FallbackOnlyWithoutMatch ==
  pState = "parsed" =>
    /\ (~NoTools(tools) /\ Matches(content, 1) # <<>>) =>
          /\ parsed.hasToolCalls
          /\ Len(parsed.toolCalls) = Len(Matches(content, 1))
          /\ \A k \in 1..Len(parsed.toolCalls) :
                parsed.toolCalls[k].toolName = Matches(content, 1)[k].name
    /\ (/\ ParsedAfterNoMatch
        /\ \/ Member(JSONparse(content), "tool_calls").t # "arr"
           \/ LegacyThrows(Member(JSONparse(content), "tool_calls").items))
         => parsed = Returned(content, FALSE, <<>>)

\* An entry whose function has no name is returned as a tool call.
C23_NamelessCallReturned ==
  /\ pState = "parsed" /\ content = NamelessCallText
  /\ parsed.hasToolCalls /\ parsed.text = NULL
  /\ Len(parsed.toolCalls) = 1
  /\ parsed.toolCalls[1].toolName = NULL

----------------------------------------------------------------------------
\* C24: every call that takes a message list returns an error outcome when
\* the list is empty, without invoking the model and without crashing.
C24_EmptyListIsAnError ==
  (/\ mState = "settled" /\ entry \in {"history", "tools"}
   /\ availability = "available"
   /\ messages.decodes /\ messages.list = <<>>) =>
    /\ mResult.outcome = "returned"
    /\ Sub(mResult.result, 1, 6) = "Error:"
    /\ ~mResult.invoked

\* C24, the part that holds: generateResponseWithHistory answers the empty
\* list with an error string and no session.
C24_HistoryEmptyListIsAnError ==
  (/\ mState = "settled" /\ entry = "history"
   /\ availability = "available"
   /\ messages.decodes /\ messages.list = <<>>) =>
    mResult = Settled("Error: No messages provided")

\* generateResponseWithTools called with the empty list has trapped.
C24_ToolsEmptyListTraps ==
  /\ mState = "settled" /\ entry = "tools"
  /\ availability = "available"
  /\ messages.decodes /\ messages.list = <<>>
  /\ mResult.outcome = "crashed"

----------------------------------------------------------------------------
\* The entry kind the role of a message maps to (roles compared in lower
\* case, as message.role.lowercased() does).
KindOfRole(role) ==
  IF role \in {"system", "System"} THEN "instructions"
  ELSE IF role = "user" THEN "prompt"
  ELSE IF role = "assistant" THEN "response"
  ELSE "prompt"

\* C25: convertMessagesToTranscript maps every history message to exactly
\* one transcript entry in the same order (system to instructions, user to
\* prompt, assistant to response, any other role to prompt): the output is
\* as long as the input; the callers pass the messages before the last one
\* and respond to the content of the last one.
C25_OneEntryPerHistoryMessage ==
  (mState = "settled" /\ mResult.invoked /\ entry \in {"history", "tools"}) =>
    LET n == Len(messages.list)
    IN /\ n >= 1
       /\ Len(mResult.entries) = n - 1
       /\ \A i \in 1..(n - 1) :
            mResult.entries[i] =
              Entry(KindOfRole(messages.list[i].role),
                    messages.list[i].content)
       /\ mResult.prompt = messages.list[n].content

\* A history with a system message and a message of an unknown role before
\* the last message.
C25_Witness ==
  /\ mState = "settled" /\ mResult.invoked /\ entry = "history"
  /\ messages.list = <<ChatMessage("system", "a"), ChatMessage("tool", "b"),
                        ChatMessage("user", "a")>>
  /\ mResult.entries = <<Entry("instructions", "a"), Entry("prompt", "b")>>
  /\ mResult.prompt = "a"

----------------------------------------------------------------------------
\* C26: when the model is unavailable, the failure of a generation entry
\* point carries the reason text of the actual availability (device not
\* eligible, feature disabled, model not ready) verbatim.
C26_FailureCarriesReason ==
  (mState = "settled" /\ availability # "available") =>
    /\ mResult.outcome = "returned"
    /\ indexOf(mResult.result, reasonString(availability)) >= 0

\* C26, the part that holds: doGenerate throws an error whose message ends
\* with the reason text of the availability.
C26_ProviderCarriesReason ==
  (gState = "settled" /\ availability # "available") =>
    /\ gResult.outcome = "threw"
    /\ gResult.message =
         "Apple Intelligence not available: " \o reasonString(availability)

\* The native entry points answer every reason with the same message.
C26_GenericMessage ==
  /\ mState = "settled" /\ availability = "modelNotReady"
  /\ entry = "history"
  /\ mResult.result = "Error: Apple Intelligence not available"

----------------------------------------------------------------------------
\* The concatenation of the text-delta parts, and the positions of parts.
RECURSIVE DeltasOf(_)
DeltasOf(ps) ==
  IF ps = <<>> THEN ""
  ELSE (IF Head(ps).type = "text-delta" THEN Head(ps).textDelta ELSE "")
         \o DeltasOf(Tail(ps))
PartsOfType(type) == {i \in 1..Len(parts) : parts[i].type = type}

\* C27: in doStream with tools offered, parseToolCalls runs once for a
\* stream, on the full accumulated text, when the chunk with finish_reason
\* "stop" arrives (and not before); every tool-call part comes after all
\* text-delta parts and before the single finish part; the accumulated
\* text is the concatenation of the text-delta parts; nothing is enqueued
\* after finish.
C27_ToolCallsBetweenTextAndFinish ==
  (~NoTools(tools) /\ dsState # "idle") =>
    /\ accumulatedContent = DeltasOf(parts)
    /\ Len(parses) <= 1
    /\ (dsState = "closed") = (Len(parses) = 1)
    /\ (dsState = "closed") = (PartsOfType("finish") # {})
    /\ PartsOfType("finish") \subseteq {Len(parts)}
    /\ \A i \in PartsOfType("text-delta"), j \in PartsOfType("tool-call") :
          i < j
    /\ dsState # "closed" => PartsOfType("tool-call") = {}
    /\ dsState = "closed" =>
          /\ parses = <<accumulatedContent>>
          /\ Len(parts) = Cardinality(PartsOfType("text-delta"))
                            + Len(Matches(accumulatedContent, 1)) + 1
          /\ \A k \in 1..Len(Matches(accumulatedContent, 1)) :
                /\ parts[Len(parts) - 1 - Len(Matches(accumulatedContent, 1)) + k].type = "tool-call"
                /\ parts[Len(parts) - 1 - Len(Matches(accumulatedContent, 1)) + k].call.toolName
                     = Matches(accumulatedContent, 1)[k].name

\* A closed stream whose parts are a text delta, two tool calls and finish.
C27_Witness ==
  /\ dsState = "closed" /\ ~NoTools(tools)
  /\ Len(parts) >= 4
  /\ parts[1].type = "text-delta"
  /\ parts[Len(parts) - 2].type = "tool-call"
  /\ parts[Len(parts) - 2].call.toolName = "weather"
  /\ parts[Len(parts) - 1].type = "tool-call"
  /\ parts[Len(parts) - 1].call.toolName = "f"
  /\ parts[Len(parts)] = FinishPart
  /\ parses = <<accumulatedContent>>

----------------------------------------------------------------------------
\* One step of the bridge: next() registers a wait only when the queue is
\* empty, and a handler invocation that finds a wait registered settles
\* that wait, clears it and leaves the queue alone.
C28_Handoff ==
  /\ (pendingResolve' # pendingResolve /\ pendingResolve' # 0) =>
       (queue = <<>> /\ queue' = <<>>)
  /\ (pendingResolve # 0 /\ Len(calls') = Len(calls) + 1) =>
       /\ queue' = queue
       /\ promises'[pendingResolve].st # "pending"
       /\ pendingResolve' = 0

\* C28: in every reachable state of the stream bridge a registered
\* consumer wait and a non-empty queue never coexist: next() registers a
\* wait only when the queue is empty, and a producer event that arrives
\* while a wait is registered is handed to that wait and is not enqueued.
C28_WaitExcludesQueue ==
  [](pendingResolve # 0 => queue = <<>>) /\ [][C28_Handoff]_vars

\* A delta was handed to the first wait and the second wait is registered
\* on the empty queue.
C28_Witness ==
  /\ Len(promises) = 2 /\ Len(calls) = 1
  /\ calls[1].err = NULL /\ ~IsEnd(calls[1].chunk)
  /\ promises[1] = Resolved(calls[1].chunk, FALSE)
  /\ promises[2].st = "pending"
  /\ pendingResolve = 2
  /\ queue = <<>>

----------------------------------------------------------------------------
\* The positions of the chunks with finish_reason "stop" in a sequence of
\* chat chunks.
StopsIn(items) == {i \in 1..Len(items) : items[i].finish_reason = "stop"}

\* C29: in streamChatCompletion, once the producer has signalled the end of
\* the stream (no error, no cancellation), the chunks the consumer has
\* received followed by the queued ones hold exactly one chunk with
\* finish_reason "stop", after every content chunk; no pull is left
\* pending; and a next() reports done: true only after an earlier next()
\* has delivered that chunk. Before the end no such chunk exists and no
\* next() reports done: true.
C29_OneStopChunkBeforeDone ==
  mode = "chat" =>
    LET all == ResolvedItems(promises) \o queue
    IN /\ pstate = "finished" =>
            /\ StopsIn(all) = {Len(all)}
            /\ TextsOf(all) = ProducedDeltas(calls)
            /\ \A i \in 1..Len(promises) :
                  /\ promises[i].st = "resolved"
                  /\ Finished(promises[i]) =>
                        \E j \in 1..(i - 1) :
                          /\ promises[j] = Resolved(FinalChunk, FALSE)
                          /\ \A k \in (j + 1)..i : Finished(promises[k])
       /\ pstate \in {"start", "loop"} =>
            /\ StopsIn(all) = {}
            /\ \A i \in 1..Len(promises) : ~Finished(promises[i])

\* A content chunk, then the stop chunk, then done: true.
C29_Witness ==
  /\ mode = "chat" /\ pstate = "finished"
  /\ Len(promises) = 3
  /\ promises[1] = Resolved(ContentChunk("a", TRUE), FALSE)
  /\ promises[2].st = "resolved"
  /\ promises[2].value.finish_reason = "stop"
  /\ Finished(promises[3])

----------------------------------------------------------------------------
\* The model output: the opening fence, J, the closing fence.
FencedJson(j) == trimStart \o j \o trimEnd
ValidJsons == {"{\"a\":1}", "\n{\"a\":1}\n"}
JsonAnswered ==
  /\ gState = "settled" /\ availability = "available"
  /\ responseFormat = "json"
  /\ gResult # GenThrew(GenerationError)

\* C30: in doGenerate with responseFormat json and a schema, when the model
\* output is the opening json fence, J, the closing fence, with J valid
\* JSON, the returned text is J, the returned object is the parse of J and
\* no "Invalid JSON response" error is thrown.
C30_FencedJsonReturned ==
  \A j \in ValidJsons :
    (JsonAnswered /\ content = FencedJson(j)) =>
      /\ gResult.outcome = "returned"
      /\ gResult.text = j
      /\ gResult.object = JSONparse(j)

\* The fenced answer is rejected with the opening fence as its content.
C30_FencedJsonRejected ==
  /\ JsonAnswered /\ content = FencedJson("\n{\"a\":1}\n")
  /\ gResult = GenThrew("Invalid JSON response: " \o trimStart)

\* C30, what the code does for every answer: the text it parses is the
\* part of the answer between index 0 and the end of the opening fence
\* when the answer holds the fence, and is never the content between the
\* fences.
C30_ExtractsUpToOpeningFence ==
  (JsonAnswered /\ indexOf(content, trimStart) >= 0) =>
    /\ Extract(content)
         = Sub(content, indexOf(content, trimEnd) + 1,
               indexOf(content, trimStart) + Len(trimStart))
    /\ gResult.outcome = "threw"

====
